---------------------------- MODULE Spec2Model ----------------------------
(***************************************************************************)
(* A model of the influence-graph backend (jepras/source-graph): the Item, *)
(* Creator and Influence stores, the merge operator, the conflict service  *)
(* and the similarity matcher, as they act on the Neo4j property graph.    *)
(*                                                                         *)
(* Text is modelled as sequences of one-character strings so that lower(), *)
(* strip(), _normalize_text, split and CONTAINS are computed, not assumed. *)
(* An Optional value is modelled as a set: {} is None, {v} is the value v. *)
(* A float in 0.0-1.0 (confidence) is modelled in whole percent.           *)
(***************************************************************************)
EXTENDS Integers, Sequences, FiniteSets, Bags, TLC

VARIABLES items, creators, rels, links, categories, nextId, nextCid,
          mg, found, ret, applied, calls

vars == <<items, creators, rels, links, categories, nextId, nextCid,
          mg, found, ret, applied, calls>>

(***************************************************************************)
(* Bounds of the exploration.                                              *)
(***************************************************************************)
\* Items created in one behaviour (the uuid suffixes handed out).
MaxIds == 3
\* INFLUENCES relationships a direct create_influence_relationship call may
\* add to (the number of relationships present before the call).
MaxRels == 2

\* The number of apply_resolutions requests, and of update_item requests,
\* served in one behaviour.
MaxApplied == 2

None == {}
Some(v) == {v}

(***************************************************************************)
(* Text.                                                                   *)
(***************************************************************************)
UpperCase == <<"A","B","C","D","E","F","G","H","I","J","K","L","M",
               "N","O","P","Q","R","S","T","U","V","W","X","Y","Z">>
LowerCase == <<"a","b","c","d","e","f","g","h","i","j","k","l","m",
               "n","o","p","q","r","s","t","u","v","w","x","y","z">>
Digits == {"0","1","2","3","4","5","6","7","8","9"}
Whitespace == {" ", "\t", "\n"}

Range(s) == {s[i] : i \in DOMAIN s}

\* str.lower() / Cypher toLower() on one character.
LowerChar(c) ==
    IF \E i \in DOMAIN UpperCase : UpperCase[i] = c
    THEN LowerCase[CHOOSE i \in DOMAIN UpperCase : UpperCase[i] = c]
    ELSE c

\* str.lower() / Cypher toLower().
toLower(s) == [i \in DOMAIN s |-> LowerChar(s[i])]

\* str.strip(): leading and trailing whitespace removed.
strip(s) ==
    LET keep == {i \in DOMAIN s : s[i] \notin Whitespace}
    IN  IF keep = {} THEN <<>>
        ELSE LET lo == CHOOSE i \in keep : \A j \in keep : i <= j
                 hi == CHOOSE i \in keep : \A j \in keep : j <= i
             IN  SubSeq(s, lo, hi)

\* The regular expression class \w.
IsWordChar(c) == c \in Range(UpperCase) \cup Range(LowerCase) \cup Digits \cup {"_"}

\* One character of _normalize_text before the whitespace is collapsed:
\* lowercased, the four named punctuation marks and every other character
\* that is neither a word character nor whitespace replaced by a space.
NormChar(c) ==
    LET l == LowerChar(c)
    IN  IF l \in {"'", "&", "-", "_"} THEN " "
        ELSE IF ~IsWordChar(l) /\ l \notin Whitespace THEN " "
        ELSE l

\* re.sub(r"\s+", " ", s): every run of whitespace becomes one space.
RECURSIVE CollapseSpaces(_)
CollapseSpaces(s) ==
    IF s = <<>> THEN <<>>
    ELSE LET rest == CollapseSpaces(Tail(s))
         IN  IF Head(s) \in Whitespace
             THEN IF rest # <<>> /\ Head(rest) = " " THEN rest ELSE <<" ">> \o rest
             ELSE <<Head(s)>> \o rest

\* ItemService._normalize_text
_normalize_text(text) ==
    IF text = <<>> THEN <<>>
    ELSE strip(CollapseSpaces([i \in DOMAIN text |-> NormChar(text[i])]))

\* Cypher: a CONTAINS b (and Python: b in a).
CONTAINS(a, b) ==
    \E i \in 0..(Len(a) - Len(b)) : SubSeq(a, i + 1, i + Len(b)) = b

\* Cypher split(s, ' '): the pieces between single spaces, empty ones kept.
RECURSIVE split(_)
split(s) ==
    IF \A i \in DOMAIN s : s[i] # " " THEN <<s>>
    ELSE LET k == CHOOSE i \in DOMAIN s : s[i] = " " /\ \A j \in 1..(i - 1) : s[j] # " "
         IN  <<SubSeq(s, 1, k - 1)>> \o split(SubSeq(s, k + 1, Len(s)))

\* The stop words of the matcher's query.
StopWords == {
    <<"t","h","e">>, <<"a","n","d">>, <<"o","f">>, <<"i","n">>, <<"o","n">>,
    <<"a","t">>, <<"t","o">>, <<"f","o","r">>, <<"w","i","t","h">>,
    <<"b","y">>, <<"a">>, <<"a","n">>, <<"a","s">>, <<"i","s">>, <<"i","t">>,
    <<"t","h","a","t">>, <<"t","h","i","s">>, <<"w","a","s">>,
    <<"w","i","l","l">>, <<"b","e">>, <<"h","a","v","e">>, <<"h","a","d">>,
    <<"h","a","s">>, <<"d","o">>, <<"d","o","e","s">>, <<"d","i","d">>,
    <<"o","r">>, <<"b","u","t">>, <<"n","o","t">>, <<"s","o">>, <<"i","f">>,
    <<"t","h","e","n">>, <<"e","l","s","e">>, <<"w","h","e","n">>,
    <<"w","h","e","r","e">>, <<"w","h","y">>, <<"h","o","w">>,
    <<"a","l","l">>, <<"a","n","y">>, <<"b","o","t","h">>,
    <<"e","a","c","h">>, <<"f","e","w">>, <<"m","o","r","e">>,
    <<"m","o","s","t">>, <<"o","t","h","e","r">>, <<"s","o","m","e">>,
    <<"s","u","c","h">>, <<"n","o">>, <<"n","o","r">>, <<"o","n","l","y">>,
    <<"o","w","n">>, <<"s","a","m","e">>, <<"t","h","a","n">>,
    <<"t","o","o">>, <<"v","e","r","y">>, <<"c","a","n">>, <<"m","a","y">>,
    <<"m","u","s","t">>, <<"s","h","a","l","l">>,
    <<"s","h","o","u","l","d">>, <<"w","o","u","l","d">>,
    <<"c","o","u","l","d">>
    }

\* The sentinel names the conflict service skips: ["none", "null", ""].
SentinelNames == { <<"n","o","n","e">>, <<"n","u","l","l">>, <<>> }

(***************************************************************************)
(* The graph store.                                                        *)
(*   items      id -> Item node                                            *)
(*   creators   id -> Creator node                                         *)
(*   rels       the bag of INFLUENCES relationships [from, to, attr]       *)
(*   links      the set of CREATED_BY relationships [item, creator, role]  *)
(*   categories name -> usage_count of the Category node                   *)
(*   nextId, nextCid   the next fresh uuid suffix of an item / a creator   *)
(*   mg         the merge_items call in progress (stepwise specification): *)
(*              the statement it has completed, its arguments, whether the *)
(*              source existed and the relationships when it started       *)
(*   found      when the last operation was a find_similar_items call: the *)
(*              service, the arguments and the list returned               *)
(*   ret        the last operation, its arguments and its outcome          *)
(*   applied    the number of apply_resolutions and update_item requests   *)
(*              served                                                     *)
(*   calls      the POST /influences/save requests in progress: per        *)
(*              request the step reached, the payload, the similar items   *)
(*              its check found and the id it answered                     *)
(***************************************************************************)
Graph == [items |-> items, creators |-> creators, rels |-> rels,
          links |-> links, categories |-> categories,
          nextId |-> nextId, nextCid |-> nextCid]

EmptyGraph == [items |-> <<>>, creators |-> <<>>, rels |-> EmptyBag,
               links |-> {}, categories |-> <<>>, nextId |-> 1, nextCid |-> 1]

SetGraph(G) ==
    /\ items' = G.items
    /\ creators' = G.creators
    /\ rels' = G.rels
    /\ links' = G.links
    /\ categories' = G.categories
    /\ nextId' = G.nextId
    /\ nextCid' = G.nextCid

Ret(op, status, a, b, n) == [op |-> op, status |-> status, a |-> a, b |-> b, n |-> n]

\* The requests to POST /influences/save that may be in progress together, and
\* a request not yet made.
Requests == {1, 2}
NoCall == [pc |-> "start", new_data |-> 0, similar_items |-> <<>>, item_id |-> 0]

\* No merge_items call is in progress.
Idle == [phase |-> "idle", src |-> 0, tgt |-> 0, had |-> FALSE, pre |-> EmptyBag]

\* No find_similar_items call has returned yet.
NoSearch == [service |-> "none", name |-> <<>>, creator_name |-> None,
             results |-> <<>>]

\* Ids a caller may pass: those handed out, and 0, which never is.
IdUniverse == 0..MaxIds

(***************************************************************************)
(* Store operations, as functions from a graph to the graph they leave.    *)
(***************************************************************************)
ItemIds(G) == DOMAIN G.items
CreatorIds(G) == DOMAIN G.creators

Without(f, k) == [x \in (DOMAIN f) \ {k} |-> f[x]]

\* The relationships of bag R that lie in S, with their multiplicities.
BagOn(R, S) == [e \in S |-> R[e]]

\* The number of INFLUENCES relationships from item a to item b.
EdgeCount(R, a, b) ==
    BagCardinality(BagOn(R, {e \in DOMAIN R : e.from = a /\ e.to = b}))

HasEdge(R, a, b) == \E e \in DOMAIN R : e.from = a /\ e.to = b

\* BaseGraphService.generate_id: the identifier is the cleaned name and type
\* followed by a fresh uuid4 suffix; the suffix alone decides uniqueness and
\* is what the model keeps.
generate_id(G) == G.nextId

\* ItemService.create_item: CREATE (i:Item {...}); the new id is the value of
\* nextId before the call.
CreateItem(G, name, type, year, description, confidence_score, verification_status) ==
    [G EXCEPT
        !.items = @ @@ (generate_id(G) :>
            [name |-> name, auto_detected_type |-> type, year |-> year,
             description |-> description, confidence_score |-> confidence_score,
             verification_status |-> verification_status]),
        !.nextId = @ + 1]

\* ItemService.get_item_by_id: the item, or None.
get_item_by_id(G, id) == IF id \in ItemIds(G) THEN Some(G.items[id]) ELSE None

\* The creators named `name` (MATCH (c:Creator {name: $name})).
CreatorsNamed(G, name) == {c \in CreatorIds(G) : G.creators[c].name = name}

\* create_creator without the lookup of an existing creator of the name.
CreateCreatorAlways(G, name, creator_type) ==
    [G EXCEPT
        !.creators = @ @@ (G.nextCid :> [name |-> name, type |-> creator_type]),
        !.nextCid = @ + 1]

\* CreatorService.create_creator: the existing creator of that exact name is
\* returned; otherwise a creator is created.
CreateCreator(G, name, creator_type) ==
    IF CreatorsNamed(G, name) # {} THEN G
    ELSE [G EXCEPT
            !.creators = @ @@ (G.nextCid :> [name |-> name, type |-> creator_type]),
            !.nextCid = @ + 1]

\* The id create_creator returns in graph G for `name`.
CreatorIdOf(G, name) ==
    IF CreatorsNamed(G, name) # {}
    THEN CHOOSE c \in CreatorsNamed(G, name) : TRUE
    ELSE G.nextCid

\* CreatorService.link_creator_to_item: MATCH both nodes, MERGE the
\* CREATED_BY {role} relationship.
LinkCreatorToItem(G, item_id, creator_id, role) ==
    IF item_id \in ItemIds(G) /\ creator_id \in CreatorIds(G)
    THEN [G EXCEPT !.links = @ \cup
            {[item |-> item_id, creator |-> creator_id, role |-> role]}]
    ELSE G

\* A variant of UpsertEdge that CREATEs a relationship on every call instead of
\* MERGE-ing it.
UpsertEdgeCreate(R, from, to, attr) ==
    R (+) SetToBag({[from |-> from, to |-> to, attr |-> attr]})

\* The MERGE ... SET of create_influence_relationship on the bag of
\* relationships: every relationship of the pair takes the new attributes, and
\* one is created when the pair has none.
UpsertEdge(R, from, to, attr) ==
    LET same(e) == e.from = from /\ e.to = to
        n == EdgeCount(R, from, to)
        new == [from |-> from, to |-> to, attr |-> attr]
        others == BagOn(R, {e \in DOMAIN R : ~same(e)})
    IN  others (+) [e \in {new} |-> IF n = 0 THEN 1 ELSE n]

\* InfluenceService.create_influence_relationship: both items are MATCHed
\* first, so nothing is written (and nothing is raised) when one is missing.
CreateInfluenceRelationship(G, from_item_id, to_item_id, attr) ==
    IF from_item_id \in ItemIds(G) /\ to_item_id \in ItemIds(G)
    THEN [G EXCEPT !.rels = UpsertEdge(@, from_item_id, to_item_id, attr)]
    ELSE G

\* BaseGraphService.ensure_category_exists: MERGE the Category node,
\* usage_count 1 on creation and one more on every match.
EnsureCategoryExists(G, category_name) ==
    [G EXCEPT !.categories =
        IF category_name \in DOMAIN @
        THEN [@ EXCEPT ![category_name] = @ + 1]
        ELSE @ @@ (category_name :> 1)]

\* DETACH DELETE of an item: the node and every relationship touching it.
DetachDelete(G, item_id) ==
    IF item_id \notin ItemIds(G) THEN G
    ELSE [G EXCEPT
            !.items = Without(@, item_id),
            !.rels = BagOn(@, {e \in DOMAIN @ : e.from # item_id /\ e.to # item_id}),
            !.links = {l \in @ : l.item # item_id}]

(***************************************************************************)
(* merge_items: its three Cypher statements.                               *)
(***************************************************************************)
\* The rows of the first statement: relationships into the source whose start
\* node has no relationship to the target (the target must exist).
IncomingRows(G, source_id, target_id) ==
    IF target_id \notin ItemIds(G) THEN EmptyBag
    ELSE BagOn(G.rels, {e \in DOMAIN G.rels :
                e.to = source_id /\ ~HasEdge(G.rels, e.from, target_id)})

\* A variant of TransferIncoming without the WHERE NOT EXISTS clause: every
\* relationship into the source is re-created on the target.
TransferIncomingAll(G, source_id, target_id) ==
    IF target_id \notin ItemIds(G) THEN G
    ELSE LET rows == BagOn(G.rels, {e \in DOMAIN G.rels : e.to = source_id})
             made == [f \in {[from |-> e.from, to |-> target_id, attr |-> e.attr] :
                                 e \in DOMAIN rows}
                         |-> rows[[from |-> f.from, to |-> source_id, attr |-> f.attr]]]
         IN  [G EXCEPT !.rels = (@ (-) rows) (+) made]

\* A variant of TransferIncoming that deletes the source before any
\* relationship is moved.
DeleteBeforeTransfer(G, source_id, target_id) == DetachDelete(G, source_id)

\* CREATE (inf)-[new_r]->(target) SET new_r = r DELETE r, for every row.
TransferIncoming(G, source_id, target_id) ==
    LET rows == IncomingRows(G, source_id, target_id)
        made == [f \in {[from |-> e.from, to |-> target_id, attr |-> e.attr] :
                            e \in DOMAIN rows}
                    |-> rows[[from |-> f.from, to |-> source_id, attr |-> f.attr]]]
    IN  [G EXCEPT !.rels = (@ (-) rows) (+) made]

\* The rows of the second statement: relationships out of the source whose end
\* node has no relationship from the target.
OutgoingRows(G, source_id, target_id) ==
    IF target_id \notin ItemIds(G) THEN EmptyBag
    ELSE BagOn(G.rels, {e \in DOMAIN G.rels :
                e.from = source_id /\ ~HasEdge(G.rels, target_id, e.to)})

\* CREATE (target)-[new_r]->(inf) SET new_r = r DELETE r, for every row.
TransferOutgoing(G, source_id, target_id) ==
    LET rows == OutgoingRows(G, source_id, target_id)
        made == [f \in {[from |-> target_id, to |-> e.to, attr |-> e.attr] :
                            e \in DOMAIN rows}
                    |-> rows[[from |-> source_id, to |-> f.to, attr |-> f.attr]]]
    IN  [G EXCEPT !.rels = (@ (-) rows) (+) made]

\* ItemService.merge_items, start to end: both transfers, then the source is
\* detach-deleted.  No statement checks that an id exists or that they differ.
MergeItems(G, source_id, target_id) ==
    DetachDelete(
        TransferOutgoing(TransferIncoming(G, source_id, target_id),
                         source_id, target_id),
        source_id)

\* The number of relationships the two transfers of a merge re-create.
MergeMoved(G, source_id, target_id) ==
    BagCardinality(IncomingRows(G, source_id, target_id))
    + BagCardinality(OutgoingRows(TransferIncoming(G, source_id, target_id),
                                  source_id, target_id))

(***************************************************************************)
(* Candidate payloads (StructuredOutput) and the services that save them.  *)
(***************************************************************************)
\* Python truthiness of an Optional[str]: neither None nor "".
Truthy(opt) == opt # None /\ opt # Some(<<>>)

\* The value of an Optional known to hold one.
The(opt) == CHOOSE v \in opt : TRUE

\* `x or default` on an Optional[str] whose values are plain strings.
OrElse(opt, default) == IF opt # None /\ opt # Some("") THEN The(opt) ELSE default

NoExplanationProvided ==
    <<"N","o"," ","e","x","p","l","a","n","a","t","i","o","n",
    " ","p","r","o","v","i","d","e","d">>
Uncategorized == <<"U","n","c","a","t","e","g","o","r","i","z","e","d">>
InfluenceOn == <<"I","n","f","l","u","e","n","c","e"," ","o","n"," ">>
MergedSuffix == <<" ","(","m","e","r","g","e","d",")">>

\* The attributes create_influence_relationship SETs on the relationship
\* (created_at, a timestamp, is left out).
EdgeAttr(confidence, influence_type, explanation, category, scope, source, year_of_influence, clusters) ==
    [confidence |-> confidence, influence_type |-> influence_type,
     explanation |-> explanation, category |-> category, scope |-> scope,
     source |-> source, year_of_influence |-> year_of_influence,
     clusters |-> clusters]

\* A variant of ExistingInfluenceNames that keeps the case of the stored names.
ExistingInfluenceNamesCaseSensitive(G, item_id) ==
    {G.items[e.from].name :
        e \in {x \in DOMAIN G.rels : x.to = item_id /\ G.items[x.from].name # <<>>}}

\* The lowercased names of the items that influence item_id, as the duplicate
\* check of add_influences_to_existing collects them.
ExistingInfluenceNames(G, item_id) ==
    {toLower(G.items[e.from].name) :
        e \in {x \in DOMAIN G.rels : x.to = item_id /\ G.items[x.from].name # <<>>}}

\* The body of the loop of add_influences_to_existing for one candidate that is
\* not skipped: the item, its creator, the relationship and the category.
\* `description` is the only place where ConflictService and GraphService differ.
AddOneInfluence(G, existing_item_id, influence, influence_name, description) ==
    LET G1 == CreateItem(G, influence_name, influence.type, influence.year,
                         description, Some(influence.confidence), "ai_generated")
        influence_item_id == generate_id(G)
        creator_name == IF Truthy(influence.creator_name)
                        THEN strip(The(influence.creator_name)) ELSE <<>>
        G2 == IF creator_name # <<>> /\ toLower(creator_name) \notin SentinelNames
              THEN LET Gc == CreateCreator(G1, creator_name,
                                           OrElse(influence.creator_type, "person"))
                   IN  LinkCreatorToItem(Gc, influence_item_id,
                                         CreatorIdOf(Gc, creator_name), "primary_creator")
              ELSE G1
        explanation == IF influence.explanation # <<>>
                       THEN strip(influence.explanation) ELSE NoExplanationProvided
        category == IF influence.category # <<>>
                    THEN strip(influence.category) ELSE Uncategorized
        \* scope is not passed: the parameter's default, "macro", is stored
        G3 == CreateInfluenceRelationship(G2, influence_item_id, existing_item_id,
                  EdgeAttr(influence.confidence, influence.influence_type,
                           explanation, category, "macro", influence.source,
                           influence.year, influence.clusters))
    IN  EnsureCategoryExists(G3, category)

\* The loop of add_influences_to_existing with the sentinel test left out.
RECURSIVE AddInfluencesFromNoSkip(_, _, _, _, _, _)
AddInfluencesFromNoSkip(G, existing_item_id, influences, i, added, variant) ==
    IF i > Len(influences) THEN [G |-> G, added |-> added]
    ELSE
      LET influence == influences[i]
          influence_name == strip(influence.name)
      IN  IF toLower(influence_name) \in ExistingInfluenceNames(G, existing_item_id)
          THEN AddInfluencesFromNoSkip(G, existing_item_id, influences, i + 1, added,
                                       variant)
          ELSE AddInfluencesFromNoSkip(
                   AddOneInfluence(G, existing_item_id, influence, influence_name,
                                   Some(influence.explanation)),
                   existing_item_id, influences, i + 1, added + 1, variant)

\* The loop of add_influences_to_existing from candidate i on; `added` is
\* new_influences_added.
RECURSIVE AddInfluencesFrom(_, _, _, _, _, _)
AddInfluencesFrom(G, existing_item_id, influences, i, added, variant) ==
    IF i > Len(influences) THEN [G |-> G, added |-> added]
    ELSE
      LET influence == influences[i]
          influence_name == strip(influence.name)
          existing_item == G.items[existing_item_id]
          description ==
              IF variant = "graph_service"
              THEN Some(InfluenceOn \o existing_item.name \o MergedSuffix)
              ELSE IF influence.explanation # <<>>
                   THEN Some(influence.explanation)
                   ELSE Some(InfluenceOn \o existing_item.name)
      IN  IF influence_name = <<>> \/ toLower(influence_name) \in SentinelNames
          THEN AddInfluencesFrom(G, existing_item_id, influences, i + 1, added, variant)
          ELSE IF toLower(influence_name) \in ExistingInfluenceNames(G, existing_item_id)
          THEN AddInfluencesFrom(G, existing_item_id, influences, i + 1, added, variant)
          ELSE AddInfluencesFrom(
                   AddOneInfluence(G, existing_item_id, influence, influence_name,
                                   description),
                   existing_item_id, influences, i + 1, added + 1, variant)

\* The creator backfill without the count of the item's CREATED_BY links.
BackfillCreatorUnchecked(G, existing_item_id, new_data) ==
    IF Truthy(new_data.main_item_creator)
    THEN LET name == The(new_data.main_item_creator)
             Gc == CreateCreator(G, name, OrElse(new_data.main_item_creator_type, "person"))
         IN  LinkCreatorToItem(Gc, existing_item_id, CreatorIdOf(Gc, name),
                               "primary_creator")
    ELSE G

\* The creator backfill of add_influences_to_existing: a primary_creator link
\* when the payload names a creator and the item has no CREATED_BY link.
BackfillCreator(G, existing_item_id, new_data) ==
    IF Truthy(new_data.main_item_creator)
       /\ {l \in G.links : l.item = existing_item_id} = {}
    THEN LET name == The(new_data.main_item_creator)
             Gc == CreateCreator(G, name, OrElse(new_data.main_item_creator_type, "person"))
         IN  LinkCreatorToItem(Gc, existing_item_id, CreatorIdOf(Gc, name),
                               "primary_creator")
    ELSE G

\* ConflictService.add_influences_to_existing (variant "conflict_service") and
\* GraphService.add_influences_to_existing (variant "graph_service"): the
\* graph left, the status and new_influences_added.
AddInfluencesToExisting(G, existing_item_id, new_data, variant) ==
    IF get_item_by_id(G, existing_item_id) = None
    THEN [G |-> G, status |-> "ValueError", added |-> 0]
    ELSE LET r == AddInfluencesFrom(BackfillCreator(G, existing_item_id, new_data),
                                    existing_item_id, new_data.influences, 1, 0, variant)
         IN  [G |-> r.G, status |-> "ok", added |-> r.added]

\* add_influences_to_existing when the store raises on the CREATE of the item
\* of the candidate at position `failing`: create_item re-raises, nothing in
\* the loop catches it, and the method re-raises.  What the earlier statements
\* wrote stays (each session.run commits on its own).  When the candidate is
\* skipped before its CREATE, no statement fails and the call runs to its end.
AddInfluencesToExistingFailing(G, existing_item_id, new_data, variant, failing) ==
    IF get_item_by_id(G, existing_item_id) = None
    THEN [G |-> G, status |-> "ValueError", added |-> 0]
    ELSE LET before == AddInfluencesFrom(
                           BackfillCreator(G, existing_item_id, new_data),
                           existing_item_id,
                           SubSeq(new_data.influences, 1, failing - 1), 1, 0, variant)
             influence_name == strip(new_data.influences[failing].name)
             reached ==
                 /\ influence_name # <<>>
                 /\ toLower(influence_name) \notin SentinelNames
                 /\ toLower(influence_name)
                        \notin ExistingInfluenceNames(before.G, existing_item_id)
         IN  IF reached
             THEN [G |-> before.G, status |-> "Exception", added |-> before.added]
             ELSE AddInfluencesToExisting(G, existing_item_id, new_data, variant)

\* One pass of the loop of save_structured_influences that does not pass the
\* candidate's scope on: the relationship takes the parameter's default.
SaveOneInfluenceDefaultScope(G, main_item_id, influence) ==
    LET G1 == CreateItem(G, influence.name, influence.type, influence.year,
                         None, None, "ai_generated")
        influence_item_id == generate_id(G)
        G3 == CreateInfluenceRelationship(G1, influence_item_id, main_item_id,
                  EdgeAttr(influence.confidence, influence.influence_type,
                           influence.explanation, influence.category, "macro",
                           influence.source, influence.year, influence.clusters))
    IN  EnsureCategoryExists(G3, influence.category)

\* One pass of the loop of save_structured_influences: the influence item, its
\* creator, the relationship (with the candidate's scope) and the category.
SaveOneInfluence(G, main_item_id, influence) ==
    LET G1 == CreateItem(G, influence.name, influence.type, influence.year,
                         None, None, "ai_generated")
        influence_item_id == generate_id(G)
        G2 == IF Truthy(influence.creator_name)
              THEN LET name == The(influence.creator_name)
                       Gc == CreateCreator(G1, name,
                                           OrElse(influence.creator_type, "person"))
                   IN  LinkCreatorToItem(Gc, influence_item_id, CreatorIdOf(Gc, name),
                                         "primary_creator")
              ELSE G1
        G3 == CreateInfluenceRelationship(G2, influence_item_id, main_item_id,
                  EdgeAttr(influence.confidence, influence.influence_type,
                           influence.explanation, influence.category, influence.scope,
                           influence.source, influence.year, influence.clusters))
    IN  EnsureCategoryExists(G3, influence.category)

RECURSIVE SaveInfluencesFrom(_, _, _, _)
SaveInfluencesFrom(G, main_item_id, influences, i) ==
    IF i > Len(influences) THEN G
    ELSE SaveInfluencesFrom(SaveOneInfluence(G, main_item_id, influences[i]),
                            main_item_id, influences, i + 1)

\* save_structured_influences on a store that refuses a second item of the
\* main item's name: nothing is written then.
SaveStructuredInfluencesUniqueName(G, structured_data) ==
    IF \E i \in ItemIds(G) : G.items[i].name = structured_data.main_item
    THEN G
    ELSE LET G1 == CreateItem(G, structured_data.main_item,
                              structured_data.main_item_type,
                              structured_data.main_item_year,
                              structured_data.main_item_description, None,
                              "ai_generated")
         IN  SaveInfluencesFrom(G1, generate_id(G), structured_data.influences, 1)

\* BulkService.save_structured_influences (GraphService.save_structured_influences
\* is the same code): the main item, its creator, every influence.
SaveStructuredInfluences(G, structured_data) ==
    LET G1 == CreateItem(G, structured_data.main_item, structured_data.main_item_type,
                         structured_data.main_item_year,
                         structured_data.main_item_description, None, "ai_generated")
        main_item_id == generate_id(G)
        G2 == IF Truthy(structured_data.main_item_creator)
              THEN LET name == The(structured_data.main_item_creator)
                       Gc == CreateCreator(G1, name,
                                 OrElse(structured_data.main_item_creator_type, "person"))
                   IN  LinkCreatorToItem(Gc, main_item_id, CreatorIdOf(Gc, name),
                                         "primary_creator")
              ELSE G1
    IN  SaveInfluencesFrom(G2, main_item_id, structured_data.influences, 1)

(***************************************************************************)
(* update_item.  update_data is a dict: a function from keys to values,    *)
(* None or Some(v).                                                        *)
(***************************************************************************)
\* The properties create_item stores as they are; the others are Optional.
PlainProperties == {"name", "verification_status", "item_id"}

\* The value SET for a key of update_data.
SetValue(field, value) == IF field \in PlainProperties THEN The(value) ELSE value

\* The keys update_item builds a SET clause for: those whose value is not None.
SetClauses(update_data) == {field \in DOMAIN update_data : update_data[field] # None}

\* A relationship or link end after the node `old` got the id `new`.
Renamed(x, old, new) == IF x = old THEN new ELSE x

\* The Item update_item and get_item_by_id build from a node.
ItemOf(G, id) ==
    [id |-> id, name |-> G.items[id].name,
     description |-> G.items[id].description, year |-> G.items[id].year,
     auto_detected_type |-> G.items[id].auto_detected_type,
     confidence_score |-> G.items[id].confidence_score,
     verification_status |-> G.items[id].verification_status]

\* ItemService.update_item: the graph left, the status and the value returned.
\* Every key with a value goes into the SET clause and into the parameters,
\* where the key "item_id" replaces the id the MATCH looks for and the key
\* "id" sets the node's id (the constraint item_id rejects an id in use).
UpdateItem(G, item_id, update_data) ==
    LET set_clauses == SetClauses(update_data)
        matched == IF "item_id" \in set_clauses
                   THEN The(update_data["item_id"]) ELSE item_id
        new_id == IF "id" \in set_clauses THEN The(update_data["id"]) ELSE matched
        node == G.items[matched]
        updated == [field \in (DOMAIN node) \cup (set_clauses \ {"id"}) |->
                        IF field \in set_clauses
                        THEN SetValue(field, update_data[field]) ELSE node[field]]
        moved(e) == [e EXCEPT !.from = Renamed(@, matched, new_id),
                              !.to = Renamed(@, matched, new_id)]
        G1 == [G EXCEPT
                !.items = [k \in (ItemIds(G) \ {matched}) \cup {new_id} |->
                              IF k = new_id THEN updated ELSE G.items[k]],
                !.rels = [e2 \in {moved(e) : e \in DOMAIN G.rels} |->
                              G.rels[CHOOSE e \in DOMAIN G.rels : moved(e) = e2]],
                !.links = {[l EXCEPT !.item = Renamed(@, matched, new_id)] : l \in @}]
    IN  IF set_clauses = {}
        THEN [G |-> G, status |-> "ok",
              item |-> IF item_id \in ItemIds(G) THEN Some(ItemOf(G, item_id)) ELSE None]
        ELSE IF matched \notin ItemIds(G)
        THEN [G |-> G, status |-> "ok", item |-> None]
        ELSE IF new_id # matched /\ new_id \in ItemIds(G)
        THEN [G |-> G, status |-> "Exception", item |-> None]
        ELSE [G |-> G1, status |-> "ok", item |-> Some(ItemOf(G1, new_id))]

(***************************************************************************)
(* Inputs the operations are called with.                                  *)
(***************************************************************************)
NameAb == <<"A","b">>
Nameab == <<"a","b">>
NameNone == <<"N","o","n","e">>
NameC == <<"c">>
NameM == <<"M">>
CreatorCr == <<"C","r">>
Creatorcr == <<"c","r">>
CatK1 == <<"k","1">>
CatK2 == <<"k","2">>
ExplE1 == <<"e","1">>

\* Arguments of create_item: name, auto_detected_type, year, description,
\* confidence_score.
ItemAb == [name |-> NameAb, type |-> Some("song"), year |-> Some(2020),
           description |-> Some(<<"d","1">>), confidence_score |-> None]
ItemC == [name |-> NameC, type |-> Some("album"), year |-> Some(2010),
          description |-> None, confidence_score |-> Some(90)]
ItemInputs == {ItemAb, ItemC}

\* Attribute sets of create_influence_relationship.
AttrInputs == {
    EdgeAttr(80, "sample", ExplE1, CatK1, "macro", None, None, None),
    EdgeAttr(95, "technique", ExplE1, CatK2, "micro", Some("book"), Some(1999),
             Some(<<"hip-hop">>)) }

\* A StructuredInfluence.
Influence(name, creator_name, category, scope, confidence) ==
    [name |-> name, type |-> Some("song"), creator_name |-> creator_name,
     creator_type |-> None, year |-> Some(1990), category |-> category,
     scope |-> scope, influence_type |-> "inspiration", confidence |-> confidence,
     explanation |-> ExplE1, source |-> None, clusters |-> None]

\* A StructuredOutput (its `categories` list is never read by the services).
Payload(main_item, main_item_creator, influences) ==
    [main_item |-> main_item, main_item_type |-> Some("album"),
     main_item_creator |-> main_item_creator, main_item_creator_type |-> None,
     main_item_year |-> Some(2000), main_item_description |-> None,
     influences |-> influences]

\* The candidate payloads: one lists the same name twice up to case, one holds
\* a sentinel name and a creator.
Payloads == <<
    Payload(NameM, None,
            << Influence(NameAb, None, CatK1, "macro", 80),
               Influence(Nameab, None, CatK2, "micro", 95) >>),
    Payload(NameM, Some(CreatorCr),
            << Influence(NameNone, None, CatK1, "macro", 80),
               Influence(NameC, Some(CreatorCr), CatK1, "nano", 85) >>) >>

(***************************************************************************)
(* Actions: one per service call, each taken start to end.                 *)
(***************************************************************************)
Init ==
    /\ items = <<>>
    /\ creators = <<>>
    /\ rels = EmptyBag
    /\ links = {}
    /\ categories = <<>>
    /\ nextId = 1
    /\ nextCid = 1
    /\ mg = Idle
    /\ found = NoSearch
    /\ ret = Ret("init", "ok", 0, 0, 0)
    /\ applied = 0
    /\ calls = [request \in Requests |-> NoCall]

create_item(inp) ==
    /\ mg.phase = "idle"
    /\ nextId <= MaxIds
    /\ SetGraph(CreateItem(Graph, inp.name, inp.type, inp.year, inp.description,
                           inp.confidence_score, "ai_generated"))
    /\ ret' = Ret("create_item", "ok", 0, 0, 0)
    /\ found' = NoSearch
    /\ UNCHANGED <<mg, applied, calls>>

\* ret.a is the id of the creator returned, ret.b the name and ret.n the type
\* asked for.
create_creator(name, creator_type) ==
    /\ mg.phase = "idle"
    /\ SetGraph(CreateCreator(Graph, name, creator_type))
    /\ ret' = Ret("create_creator", "ok", CreatorIdOf(Graph, name), name, creator_type)
    /\ found' = NoSearch
    /\ UNCHANGED <<mg, applied, calls>>

link_creator_to_item(item_id, creator_id, role) ==
    /\ mg.phase = "idle"
    /\ SetGraph(LinkCreatorToItem(Graph, item_id, creator_id, role))
    /\ ret' = Ret("link_creator_to_item", "ok", 0, 0, 0)
    /\ found' = NoSearch
    /\ UNCHANGED <<mg, applied, calls>>

create_influence_relationship(from_item_id, to_item_id, attr) ==
    /\ mg.phase = "idle"
    /\ BagCardinality(rels) <= MaxRels
    /\ HasEdge(rels, from_item_id, to_item_id) \/ BagCardinality(rels) < MaxRels
    /\ SetGraph(CreateInfluenceRelationship(Graph, from_item_id, to_item_id, attr))
    /\ ret' = Ret("create_influence_relationship", "ok", from_item_id, to_item_id,
                  EdgeCount(rels, from_item_id, to_item_id))
    /\ found' = NoSearch
    /\ UNCHANGED <<mg, applied, calls>>

delete_item_completely(item_id) ==
    /\ mg.phase = "idle"
    /\ SetGraph(DetachDelete(Graph, item_id))
    /\ ret' = Ret("delete_item_completely", "ok", 0, 0, 0)
    /\ found' = NoSearch
    /\ UNCHANGED <<mg, applied, calls>>

\* merge_items returns target_item_id whatever the two ids are; ret.n is the
\* number of relationships the call re-created on the target.
merge_items(source_item_id, target_item_id) ==
    /\ mg.phase = "idle"
    /\ SetGraph(MergeItems(Graph, source_item_id, target_item_id))
    /\ ret' = Ret("merge_items", "ok", source_item_id, target_item_id,
                  MergeMoved(Graph, source_item_id, target_item_id))
    /\ found' = NoSearch
    /\ UNCHANGED <<mg, applied, calls>>

save_structured_influences(p) ==
    /\ mg.phase = "idle"
    /\ nextId + Len(Payloads[p].influences) <= MaxIds
    /\ SetGraph(SaveStructuredInfluences(Graph, Payloads[p]))
    /\ ret' = Ret("save_structured_influences", "ok", nextId, p,
                  Len(Payloads[p].influences))
    /\ found' = NoSearch
    /\ UNCHANGED <<mg, applied, calls>>

\* ret.n is new_influences_added.
add_influences_to_existing(existing_item_id, p, variant) ==
    /\ mg.phase = "idle"
    /\ LET r == AddInfluencesToExisting(Graph, existing_item_id, Payloads[p], variant)
       IN  /\ r.G.nextId <= MaxIds + 1
           /\ SetGraph(r.G)
           /\ ret' = Ret("add_influences_to_existing", r.status, existing_item_id, p,
                         r.added)
    /\ found' = NoSearch
    /\ UNCHANGED <<mg, applied, calls>>


\* add_influences_to_existing with a store failure at one candidate; ret.b is
\* the payload and the position of the candidate, ret.n new_influences_added
\* when the failure struck.
add_influences_to_existing_failing(existing_item_id, p, variant, failing) ==
    /\ mg.phase = "idle"
    /\ LET r == AddInfluencesToExistingFailing(Graph, existing_item_id, Payloads[p],
                                               variant, failing)
       IN  /\ r.G.nextId <= MaxIds + 1
           /\ SetGraph(r.G)
           /\ ret' = Ret("add_influences_to_existing_failing", r.status,
                         existing_item_id, [payload |-> p, failing |-> failing],
                         r.added)
    /\ found' = NoSearch
    /\ UNCHANGED <<mg, applied, calls>>

\* ret.a is item_id, ret.b update_data, ret.n the value returned.
update_item(item_id, update_data) ==
    /\ mg.phase = "idle"
    /\ applied < MaxApplied
    /\ LET r == UpdateItem(Graph, item_id, update_data)
       IN  /\ SetGraph(r.G)
           /\ ret' = Ret("update_item", r.status, item_id, update_data, r.item)
    /\ applied' = applied + 1
    /\ found' = NoSearch
    /\ UNCHANGED <<mg, calls>>

(***************************************************************************)
(* The similarity matcher.                                                 *)
(***************************************************************************)
\* LIMIT 5 of both find_similar_items queries.
ResultLimit == 5

\* The words a query keeps: size(word) >= 3 AND NOT word IN [stop words].
IsSignificant(word) == Len(word) >= 3 /\ word \notin StopWords

\* [word IN split(text, ' ') WHERE ...]
SignificantWords(text) == SelectSeq(split(text), IsSignificant)

\* size([word IN filtered_search_words WHERE word IN item_words])
Matches(filtered_search_words, item_words) ==
    Cardinality({k \in DOMAIN filtered_search_words :
                    filtered_search_words[k] \in Range(item_words)})

\* collect(c.name) over the item's CREATED_BY relationships.
CreatorNamesOf(G, item_id) ==
    {G.creators[l.creator].name : l \in {x \in G.links : x.item = item_id}}

\* `creator_name or ""`
OrEmpty(creator_name) == IF Truthy(creator_name) THEN The(creator_name) ELSE <<>>

\* The rows of the fuzzy query of ItemService.find_similar_items before they
\* are ordered: one per item that passes the WHERE clause.  The item's words
\* come from its stored name, lowercased only; the search words from the
\* normalized search name.
FuzzyRows(G, normalized_search_name, creator_name) ==
    LET filtered_search_words == SignificantWords(normalized_search_name)
        total_search_words == Len(filtered_search_words)
        row(i) ==
            [id |-> i,
             matches |-> Matches(filtered_search_words,
                                 SignificantWords(toLower(G.items[i].name))),
             total_search_words |-> total_search_words]
        where(i) ==
            LET name == toLower(G.items[i].name)
                r == row(i)
            IN  \/ r.matches > 0 /\ 10 * r.matches >= 6 * r.total_search_words
                \/ name = toLower(normalized_search_name)
                \/ /\ CONTAINS(name, toLower(normalized_search_name))
                   /\ Len(normalized_search_name) >= 4
                \/ /\ CONTAINS(toLower(normalized_search_name), name)
                   /\ Len(G.items[i].name) >= 4
                \/ /\ creator_name # <<>>
                   /\ \E c \in CreatorNamesOf(G, i) :
                        CONTAINS(toLower(c), toLower(creator_name))
    IN  {row(i) : i \in {j \in ItemIds(G) : where(j)}}

\* The similarity_score ItemService.find_similar_items computes for a row;
\* word_overlap_score is kept in whole percent.
SimilarityScore(item_name, search_name_normalized, matches, total_search_words) ==
    LET word_overlap_score ==
            IF total_search_words > 0
            THEN (matches * 100) \div total_search_words ELSE 0
        item_name_normalized == _normalize_text(item_name)
    IN  IF item_name_normalized = search_name_normalized THEN 100
        ELSE IF CONTAINS(search_name_normalized, item_name_normalized)
                /\ Len(search_name_normalized) >= 4 THEN 90
        ELSE IF CONTAINS(item_name_normalized, search_name_normalized)
                /\ Len(item_name_normalized) >= 4 THEN 85
        ELSE IF word_overlap_score >= 60
             THEN (IF word_overlap_score < 80 THEN word_overlap_score ELSE 80)
        ELSE 0

\* The orders in which the database may return a set of rows.
Orderings(S) ==
    {f \in [1..Cardinality(S) -> S] :
        \A i, j \in 1..Cardinality(S) : i # j => f[i] # f[j]}

\* LIMIT
Limit(rows, n) == SubSeq(rows, 1, IF Len(rows) < n THEN Len(rows) ELSE n)

\* ORDER BY matches DESC, total_search_words ASC: rows that tie on both keys
\* come in whatever order the database produces them.
FuzzyOrders(rows) ==
    {f \in Orderings(rows) :
        \A k \in 1..(Cardinality(rows) - 1) :
            \/ f[k].matches > f[k + 1].matches
            \/ /\ f[k].matches = f[k + 1].matches
               /\ f[k].total_search_words <= f[k + 1].total_search_words}

\* ItemService.find_similar_items: the lists it may return.
ItemService_find_similar_items(G, name, creator_name) ==
    LET normalized_search_name == _normalize_text(name)
        rows == FuzzyRows(G, normalized_search_name, OrEmpty(creator_name))
    IN  {[k \in DOMAIN Limit(f, ResultLimit) |->
            [id |-> f[k].id,
             similarity_score |->
                SimilarityScore(G.items[f[k].id].name, normalized_search_name,
                                f[k].matches, f[k].total_search_words)]] :
         f \in FuzzyOrders(rows)}

\* The CASE expression of GraphService.find_similar_items.
NameScore(item_name, name) ==
    IF toLower(item_name) = toLower(name) THEN 100
    ELSE IF CONTAINS(toLower(item_name), toLower(name)) THEN 80
    ELSE IF CONTAINS(toLower(name), toLower(item_name)) THEN 70
    ELSE 50

\* The rows of the query of GraphService.find_similar_items before they are
\* ordered.
LooseRows(G, name, creator_name) ==
    {[id |-> i, name_score |-> NameScore(G.items[i].name, name)] :
        i \in {j \in ItemIds(G) :
                \/ NameScore(G.items[j].name, name) >= 50
                \/ \E c \in CreatorNamesOf(G, j) :
                        CONTAINS(toLower(c), toLower(creator_name))}}

\* ORDER BY name_score DESC
LooseOrders(rows) ==
    {f \in Orderings(rows) :
        \A k \in 1..(Cardinality(rows) - 1) : f[k].name_score >= f[k + 1].name_score}

\* GraphService.find_similar_items: the lists it may return.
GraphService_find_similar_items(G, name, creator_name) ==
    {[k \in DOMAIN Limit(f, ResultLimit) |->
        [id |-> f[k].id, similarity_score |-> f[k].name_score]] :
     f \in LooseOrders(LooseRows(G, name, OrEmpty(creator_name)))}

\* Names of stored items and of queries.
NameAbc == <<"a","b","c">>
NameAbcD == <<"A","b","c"," ","d">>
NameAHyphenB == <<"a","-","b">>
SimNames == {NameAbc, NameAbcD, NameAHyphenB}

find_similar_items(name, creator_name) ==
    /\ mg.phase = "idle"
    /\ \E results \in ItemService_find_similar_items(Graph, name, creator_name) :
        /\ found' = [service |-> "ItemService", name |-> name,
                     creator_name |-> creator_name, results |-> results]
        /\ ret' = Ret("find_similar_items", "ok", 0, 0, Len(results))
    /\ UNCHANGED <<items, creators, rels, links, categories, nextId, nextCid, mg, applied, calls>>

graph_service_find_similar_items(name, creator_name) ==
    /\ mg.phase = "idle"
    /\ \E results \in GraphService_find_similar_items(Graph, name, creator_name) :
        /\ found' = [service |-> "GraphService", name |-> name,
                     creator_name |-> creator_name, results |-> results]
        /\ ret' = Ret("find_similar_items", "ok", 0, 0, Len(results))
    /\ UNCHANGED <<items, creators, rels, links, categories, nextId, nextCid, mg, applied, calls>>

\* The sentinel test of the conflict service on a candidate's name:
\* `not influence_name or influence_name.lower() in ["none", "null", ""]`.
IsSentinelName(influence_name) ==
    influence_name = <<>> \/ toLower(influence_name) \in SentinelNames

\* The sum of len(f[k]) over the keys k in S.
RECURSIVE TotalLen(_, _)
TotalLen(f, S) ==
    IF S = {} THEN 0
    ELSE LET k == CHOOSE x \in S : TRUE
         IN  Len(f[k]) + TotalLen(f, S \ {k})

\* The conflict report built from the matcher's answers: main_conflicts for
\* the main item, by_candidate[k] for the k-th influence of those checked.
\* The keys of influence_conflicts are the positions enumerate() gives, from 0.
ConflictReport(new_data, main_conflicts, by_candidate) ==
    LET hit == {k \in DOMAIN by_candidate : by_candidate[k] # <<>>}
    IN  [main_item_conflicts |-> main_conflicts,
         influence_conflicts |->
            [i \in {k - 1 : k \in hit} |->
                [influence |-> new_data.influences[i + 1],
                 similar_items |-> by_candidate[i + 1],
                 influence_index |-> i]],
         total_conflicts |-> Len(main_conflicts) + TotalLen(by_candidate, hit)]

\* find_comprehensive_conflicts with the sentinel test left out.
FindComprehensiveConflictsNoSkip(G, new_data) ==
    LET checked == DOMAIN new_data.influences
        answers(k) == ItemService_find_similar_items(
                          G, strip(new_data.influences[k].name),
                          new_data.influences[k].creator_name)
    IN  {ConflictReport(new_data, m, f) :
            m \in ItemService_find_similar_items(G, new_data.main_item,
                                                 new_data.main_item_creator),
            f \in {g \in [checked -> UNION {answers(k) : k \in checked}] :
                        \A k \in checked : g[k] \in answers(k)}}

\* ConflictService.find_comprehensive_conflicts: the reports it may return
\* (one per order in which the matcher's queries may return tied rows).
FindComprehensiveConflicts(G, new_data) ==
    LET checked == {k \in DOMAIN new_data.influences :
                        ~IsSentinelName(strip(new_data.influences[k].name))}
        answers(k) == ItemService_find_similar_items(
                          G, strip(new_data.influences[k].name),
                          new_data.influences[k].creator_name)
    IN  {ConflictReport(new_data, m, f) :
            m \in ItemService_find_similar_items(G, new_data.main_item,
                                                 new_data.main_item_creator),
            f \in {g \in [checked -> UNION {answers(k) : k \in checked}] :
                        \A k \in checked : g[k] \in answers(k)}}

\* found holds the report; ret.b is the payload, ret.n the number of
\* candidates with an entry.
find_comprehensive_conflicts(p) ==
    /\ mg.phase = "idle"
    /\ \E report \in FindComprehensiveConflicts(Graph, Payloads[p]) :
        /\ found' = [service |-> "ConflictService", name |-> Payloads[p].main_item,
                     creator_name |-> Payloads[p].main_item_creator,
                     results |-> report.main_item_conflicts,
                     influence_conflicts |-> report.influence_conflicts,
                     total_conflicts |-> report.total_conflicts]
        /\ ret' = Ret("find_comprehensive_conflicts", "ok", 0, p,
                      Cardinality(DOMAIN report.influence_conflicts))
    /\ UNCHANGED <<items, creators, rels, links, categories, nextId, nextCid, mg, applied, calls>>

(***************************************************************************)
(* Applying resolutions: the routes /save-with-resolutions (the main item  *)
(* is created) and /merge (the main item is an existing one).  A candidate *)
(* is keyed by its position from 0; a resolution is create_new, or merge   *)
(* with the id of the existing item chosen (selectedItemId).               *)
(***************************************************************************)
CreateNew == [resolution |-> "create_new", selectedItemId |-> None]
MergeInto(target_item_id) == [resolution |-> "merge", selectedItemId |-> Some(target_item_id)]

\* `resolution.get("resolution") == "merge" and resolution.get("selectedItemId")`
\* for the candidate at position i, when the map has the key.
IsMergeResolution(influence_resolutions, i) ==
    /\ i \in DOMAIN influence_resolutions
    /\ influence_resolutions[i].resolution = "merge"
    /\ influence_resolutions[i].selectedItemId # None

\* processed_influences: the candidates from the k-th on that are not merged.
RECURSIVE ProcessedInfluences(_, _, _)
ProcessedInfluences(influences, influence_resolutions, k) ==
    IF k > Len(influences) THEN <<>>
    ELSE (IF IsMergeResolution(influence_resolutions, k - 1)
          THEN <<>> ELSE <<influences[k]>>)
         \o ProcessedInfluences(influences, influence_resolutions, k + 1)

\* The attributes the routes pass to create_influence_relationship for a
\* merged candidate.
MergeAttr(influence) ==
    EdgeAttr(influence.confidence, influence.influence_type, influence.explanation,
             influence.category, influence.scope, influence.source, influence.year,
             influence.clusters)

\* The create_influence_relationship calls for the merged candidates from the
\* k-th on: from the selected item to the main item.  No category is
\* registered for them.
RECURSIVE MergeRelationshipsFrom(_, _, _, _, _)
MergeRelationshipsFrom(G, influences, influence_resolutions, to_item_id, k) ==
    IF k > Len(influences) THEN G
    ELSE IF IsMergeResolution(influence_resolutions, k - 1)
    THEN MergeRelationshipsFrom(
            CreateInfluenceRelationship(
                G, The(influence_resolutions[k - 1].selectedItemId), to_item_id,
                MergeAttr(influences[k])),
            influences, influence_resolutions, to_item_id, k + 1)
    ELSE MergeRelationshipsFrom(G, influences, influence_resolutions, to_item_id, k + 1)

\* save_with_comprehensive_resolutions: the main item and the candidates not
\* merged are saved with save_structured_influences, then the relationships
\* of the merged candidates are written.
SaveWithComprehensiveResolutions(G, new_data, influence_resolutions) ==
    LET processed_influences ==
            ProcessedInfluences(new_data.influences, influence_resolutions, 1)
        main_item_id == generate_id(G)
        G1 == SaveStructuredInfluences(
                  G, [new_data EXCEPT !.influences = processed_influences])
    IN  [G |-> MergeRelationshipsFrom(G1, new_data.influences, influence_resolutions,
                                      main_item_id, 1),
         status |-> "ok", item_id |-> main_item_id,
         created |-> Len(processed_influences)]

\* merge_with_existing: with resolutions, the relationships of the merged
\* candidates are written and the others go to add_influences_to_existing
\* (when there are any); without, all go to add_influences_to_existing.  A
\* ValueError of add_influences_to_existing becomes a 500 response.
MergeWithExisting(G, existing_item_id, new_data, influence_resolutions) ==
    LET processed_influences ==
            IF DOMAIN influence_resolutions = {} THEN new_data.influences
            ELSE ProcessedInfluences(new_data.influences, influence_resolutions, 1)
        G1 == MergeRelationshipsFrom(G, new_data.influences, influence_resolutions,
                                     existing_item_id, 1)
        r == AddInfluencesToExisting(
                 G1, existing_item_id,
                 [new_data EXCEPT !.influences = processed_influences],
                 "graph_service")
    IN  IF DOMAIN influence_resolutions # {} /\ processed_influences = <<>>
        THEN [G |-> G1, status |-> "ok", item_id |-> existing_item_id, created |-> 0]
        ELSE [G |-> r.G, status |-> IF r.status = "ok" THEN "ok" ELSE "500",
              item_id |-> existing_item_id, created |-> Len(processed_influences)]

\* The resolutions applied: by /merge when the main item's resolution is
\* merge, by /save-with-resolutions when it is create_new.
ApplyResolutions(G, new_data, main_item_resolution, influence_resolutions) ==
    IF main_item_resolution.resolution = "merge"
    THEN MergeWithExisting(G, The(main_item_resolution.selectedItemId), new_data,
                           influence_resolutions)
    ELSE SaveWithComprehensiveResolutions(G, new_data, influence_resolutions)

\* The resolution maps for n candidates with targets among T.
ResolutionMaps(n, T) ==
    UNION {[D -> {CreateNew} \cup {MergeInto(t) : t \in T}] : D \in SUBSET (0..(n - 1))}

\* ret.a is the item id answered, ret.b the request, ret.n the number of
\* candidates the response counts as created.
apply_resolutions(p, main_item_resolution, influence_resolutions) ==
    /\ mg.phase = "idle"
    /\ applied < MaxApplied
    /\ LET r == ApplyResolutions(Graph, Payloads[p], main_item_resolution,
                                 influence_resolutions)
       IN  /\ r.G.nextId <= MaxIds + 1
           /\ SetGraph(r.G)
           /\ ret' = Ret("apply_resolutions", r.status, r.item_id,
                         [payload |-> p, main |-> main_item_resolution,
                          resolutions |-> influence_resolutions],
                         r.created)
    /\ applied' = applied + 1
    /\ found' = NoSearch
    /\ UNCHANGED <<mg, calls>>

(***************************************************************************)
(* Reading the graph.                                                      *)
(***************************************************************************)
\* The scopes a relationship may have.
Scopes == {"macro", "micro", "nano"}

\* The INFLUENCES relationships into item_id that the influence query of
\* get_influences MATCHes: all of them when `scopes` is None or empty, else
\* those WHERE r.scope IN scopes.
FilteredIncoming(G, item_id, scopes) ==
    {e \in DOMAIN G.rels :
        e.to = item_id /\ (scopes = {} \/ e.attr.scope \in scopes)}

\* The rows one relationship gives after
\* OPTIONAL MATCH (influence)-[:CREATED_BY]->(creator:Creator): one per
\* CREATED_BY relationship of the influencing item, and one when it has none.
RowsPerInfluence(G, from_item_id) ==
    LET n == Cardinality({l \in G.links : l.item = from_item_id})
    IN  IF n = 0 THEN 1 ELSE n

\* GraphQueryService.get_influences (GraphService.get_influences is the same
\* code).  `influences` is the bag of the InfluenceRelations appended, one per
\* row (their order, by the influencing item's year, is not kept);
\* `categories` and `scopes` come from RETURN DISTINCT queries.
GetInfluences(G, item_id, scopes) ==
    IF get_item_by_id(G, item_id) = None
    THEN [status |-> "ValueError", influences |-> EmptyBag, categories |-> {},
          scopes |-> {}, creators |-> {}]
    ELSE [status |-> "ok",
          influences |->
            [e \in FilteredIncoming(G, item_id, scopes) |->
                G.rels[e] * RowsPerInfluence(G, e.from)],
          categories |->
            {e.attr.category : e \in FilteredIncoming(G, item_id, scopes)} \ {<<>>},
          scopes |-> {e.attr.scope : e \in FilteredIncoming(G, item_id, {})},
          creators |-> {l.creator : l \in {x \in G.links : x.item = item_id}}]

\* found holds the response; ret.a is the item, ret.b the scopes asked for,
\* ret.n the length of the influences list.
get_influences(item_id, scopes) ==
    /\ mg.phase = "idle"
    /\ LET r == GetInfluences(Graph, item_id, scopes)
       IN  /\ found' = [service |-> "GraphQueryService", name |-> <<>>,
                        creator_name |-> None, results |-> <<>>, response |-> r]
           /\ ret' = Ret("get_influences", r.status, item_id, scopes,
                         BagCardinality(r.influences))
    /\ UNCHANGED <<items, creators, rels, links, categories, nextId, nextCid, mg, applied, calls>>

\* GraphQueryService.get_what_item_influences: the InfluenceRelations appended,
\* one per row of the relationships out of item_id after
\* OPTIONAL MATCH (influenced)-[:CREATED_BY]->(creator:Creator).
GetWhatItemInfluences(G, item_id) ==
    [e \in {x \in DOMAIN G.rels : x.from = item_id /\ item_id \in ItemIds(G)} |->
        G.rels[e] * RowsPerInfluence(G, e.to)]

\* GraphQueryService.get_expansion_counts: count(*) of the relationships into
\* and out of item_id.
GetExpansionCounts(G, item_id) ==
    [incoming_influences |->
        BagCardinality(BagOn(G.rels, {e \in DOMAIN G.rels : e.to = item_id})),
     outgoing_influences |->
        BagCardinality(BagOn(G.rels, {e \in DOMAIN G.rels : e.from = item_id}))]

\* found holds the list; ret.a is the item, ret.n the length of the list.
get_what_item_influences(item_id) ==
    /\ mg.phase = "idle"
    /\ LET r == GetWhatItemInfluences(Graph, item_id)
       IN  /\ found' = [service |-> "GraphQueryService", name |-> <<>>,
                        creator_name |-> None, results |-> <<>>,
                        response |-> [influences |-> r]]
           /\ ret' = Ret("get_what_item_influences", "ok", item_id, 0,
                         BagCardinality(r))
    /\ UNCHANGED <<items, creators, rels, links, categories, nextId, nextCid, mg, applied, calls>>

\* found holds the two counts; ret.a is the item.
get_expansion_counts(item_id) ==
    /\ mg.phase = "idle"
    /\ found' = [service |-> "GraphQueryService", name |-> <<>>,
                 creator_name |-> None, results |-> <<>>,
                 response |-> GetExpansionCounts(Graph, item_id)]
    /\ ret' = Ret("get_expansion_counts", "ok", item_id, 0, 0)
    /\ UNCHANGED <<items, creators, rels, links, categories, nextId, nextCid, mg, applied, calls>>

(***************************************************************************)
(* The route POST /influences/save, taken in its two store accesses: the   *)
(* check for similar items and, when none was found, the save.  Requests   *)
(* run together; each sees what the others have written so far.            *)
(***************************************************************************)
\* The payloads of the requests: the same main item name, with and without
\* a creator and an influence.
RacePayloads == <<
    Payload(NameM, None, <<>>),
    Payload(NameM, Some(CreatorCr), << Influence(NameC, None, CatK1, "macro", 80) >>) >>

\* graph_service.find_similar_items(...): with similar items the route answers
\* requires_review and is done; with none it goes on to save.
save_route_check(request, p) ==
    /\ mg.phase = "idle"
    /\ calls[request].pc = "start"
    /\ \E similar_items \in GraphService_find_similar_items(
                                Graph, RacePayloads[p].main_item,
                                RacePayloads[p].main_item_creator) :
        /\ calls' = [calls EXCEPT ![request] =
                        [pc |-> IF similar_items # <<>> THEN "requires_review"
                                ELSE "saving",
                         new_data |-> p, similar_items |-> similar_items,
                         item_id |-> 0]]
        /\ ret' = Ret("save_route", "checked", request, p, Len(similar_items))
    /\ found' = NoSearch
    /\ UNCHANGED <<items, creators, rels, links, categories, nextId, nextCid, mg, applied>>

\* graph_service.save_structured_influences(structured_data) and the success
\* response with the main item's id (ret.n).
save_route_save(request) ==
    /\ mg.phase = "idle"
    /\ calls[request].pc = "saving"
    /\ LET structured_data == RacePayloads[calls[request].new_data]
           G == SaveStructuredInfluences(Graph, structured_data)
       IN  /\ G.nextId <= MaxIds + 1
           /\ SetGraph(G)
           /\ calls' = [calls EXCEPT ![request].pc = "success",
                                     ![request].item_id = generate_id(Graph)]
           /\ ret' = Ret("save_route", "ok", request, calls[request].new_data,
                         generate_id(Graph))
    /\ found' = NoSearch
    /\ UNCHANGED <<mg, applied>>

(***************************************************************************)
(* merge_items statement by statement: each session.run commits on its     *)
(* own, so a crash between two of them leaves what the earlier ones wrote. *)
(***************************************************************************)
merge_transfer_incoming(source_item_id, target_item_id) ==
    /\ mg.phase = "idle"
    /\ mg' = [phase |-> "incoming_done", src |-> source_item_id,
              tgt |-> target_item_id, had |-> source_item_id \in DOMAIN items,
              pre |-> rels]
    /\ SetGraph(TransferIncoming(Graph, source_item_id, target_item_id))
    /\ ret' = Ret("merge_items", "running", source_item_id, target_item_id, 0)
    /\ found' = NoSearch
    /\ UNCHANGED <<applied, calls>>

merge_transfer_outgoing ==
    /\ mg.phase = "incoming_done"
    /\ mg' = [mg EXCEPT !.phase = "outgoing_done"]
    /\ SetGraph(TransferOutgoing(Graph, mg.src, mg.tgt))
    /\ found' = NoSearch
    /\ UNCHANGED <<ret, applied, calls>>

merge_delete_source ==
    /\ mg.phase = "outgoing_done"
    /\ mg' = Idle
    /\ SetGraph(DetachDelete(Graph, mg.src))
    /\ ret' = Ret("merge_items", "ok", mg.src, mg.tgt, 0)
    /\ found' = NoSearch
    /\ UNCHANGED <<applied, calls>>

\* The process dies between two statements: the call never resumes.
crash ==
    /\ mg.phase # "idle"
    /\ mg' = Idle
    /\ ret' = Ret("merge_items", "crashed", mg.src, mg.tgt, 0)
    /\ found' = NoSearch
    /\ UNCHANGED <<items, creators, rels, links, categories, nextId, nextCid, applied, calls>>

(***************************************************************************)
(* Specifications.                                                         *)
(***************************************************************************)
\* The six graph-writing operations, each taken start to end.  The GraphService
\* copy of add_influences_to_existing differs from the ConflictService one in
\* the description of the items it creates only; SpecAdd runs both.
Next ==
    \/ create_item(ItemC)
    \/ \E f \in DOMAIN items, t \in DOMAIN items, a \in AttrInputs :
            create_influence_relationship(f, t, a)
    \/ \E i \in DOMAIN items : delete_item_completely(i)
    \/ \E s \in IdUniverse, t \in IdUniverse : merge_items(s, t)
    \/ \E p \in DOMAIN Payloads : save_structured_influences(p)
    \/ \E i \in IdUniverse, p \in DOMAIN Payloads :
            add_influences_to_existing(i, p, "conflict_service")

Spec == Init /\ [][Next]_vars

\* Items, creators and their links, relationships, and merges of any two ids.
NextMerge ==
    \/ \E inp \in ItemInputs : create_item(inp)
    \/ create_creator(CreatorCr, "person")
    \/ \E i \in DOMAIN items, c \in DOMAIN creators :
            link_creator_to_item(i, c, "creator")
    \/ \E f \in DOMAIN items, t \in DOMAIN items, a \in AttrInputs :
            create_influence_relationship(f, t, a)
    \/ \E i \in DOMAIN items : delete_item_completely(i)
    \/ \E s \in IdUniverse, t \in IdUniverse : merge_items(s, t)

SpecMerge == Init /\ [][NextMerge]_vars

\* merge_items statement by statement, with crashes.
NextCrash ==
    \/ create_item(ItemC)
    \/ \E f \in DOMAIN items, t \in DOMAIN items, a \in AttrInputs :
            create_influence_relationship(f, t, a)
    \/ \E s \in IdUniverse, t \in IdUniverse : merge_transfer_incoming(s, t)
    \/ merge_transfer_outgoing
    \/ merge_delete_source
    \/ crash

SpecCrash == Init /\ [][NextCrash]_vars

\* Both add_influences_to_existing implementations, on items created one by
\* one and on items saved with their influences.
NextAdd ==
    \/ create_item(ItemC)
    \/ \E p \in DOMAIN Payloads : save_structured_influences(p)
    \/ \E i \in DOMAIN items : delete_item_completely(i)
    \/ \E i \in IdUniverse, p \in DOMAIN Payloads,
          v \in {"conflict_service", "graph_service"} :
            add_influences_to_existing(i, p, v)

SpecAdd == Init /\ [][NextAdd]_vars

\* A store of named items with creators, and both matchers queried on it.
NextSim ==
    \/ \E n \in SimNames :
            create_item([name |-> n, type |-> Some("song"), year |-> None,
                         description |-> None, confidence_score |-> None])
    \/ create_creator(CreatorCr, "person")
    \/ \E i \in DOMAIN items, c \in DOMAIN creators :
            link_creator_to_item(i, c, "creator")
    \/ \E n \in SimNames, cn \in {None, Some(CreatorCr)} :
            find_similar_items(n, cn)
    \/ \E n \in SimNames, cn \in {None, Some(CreatorCr)} :
            graph_service_find_similar_items(n, cn)

SpecSim == Init /\ [][NextSim]_vars

\* The conflict report asked for candidate payloads, on a store filled by
\* saves (which also store items under sentinel names) and single creates.
NextConflict ==
    \/ \E inp \in ItemInputs : create_item(inp)
    \/ \E p \in DOMAIN Payloads : save_structured_influences(p)
    \/ \E i \in DOMAIN items : delete_item_completely(i)
    \/ \E p \in DOMAIN Payloads : find_comprehensive_conflicts(p)

SpecConflict == Init /\ [][NextConflict]_vars

\* Resolutions applied to candidate payloads, one application after another
\* from the empty store; the targets named are the ids of the items stored
\* and 0, the id of none.
NextApply ==
    \E p \in DOMAIN Payloads :
        \E m \in {CreateNew} \cup {MergeInto(t) : t \in (DOMAIN items) \cup {0}},
           res \in ResolutionMaps(Len(Payloads[p].influences), (DOMAIN items) \cup {0}) :
            apply_resolutions(p, m, res)

SpecApply == Init /\ [][NextApply]_vars

\* get_influences, get_what_item_influences and get_expansion_counts asked of
\* stores built by saves, with creators linked to items and items deleted.
NextQuery ==
    \/ \E p \in DOMAIN Payloads : save_structured_influences(p)
    \/ create_creator(CreatorCr, "person")
    \/ \E i \in DOMAIN items, c \in DOMAIN creators :
            link_creator_to_item(i, c, "creator")
    \/ \E i \in DOMAIN items : delete_item_completely(i)
    \/ \E i \in IdUniverse, S \in SUBSET Scopes : get_influences(i, S)
    \/ \E i \in IdUniverse : get_what_item_influences(i)
    \/ \E i \in IdUniverse : get_expansion_counts(i)

SpecQuery == Init /\ [][NextQuery]_vars

\* add_influences_to_existing (both implementations) with the store failing
\* at one candidate, on items created one by one or saved with influences.
NextFault ==
    \/ create_item(ItemC)
    \/ \E p \in DOMAIN Payloads : save_structured_influences(p)
    \/ \E i \in DOMAIN items : delete_item_completely(i)
    \/ \E i \in IdUniverse, p \in DOMAIN Payloads,
          v \in {"conflict_service", "graph_service"} :
            \E k \in DOMAIN Payloads[p].influences :
                add_influences_to_existing_failing(i, p, v, k)

SpecFault == Init /\ [][NextFault]_vars

\* The dicts update_item is called with: empty, all None, one or several
\* fields, None among values, and the keys "id" and "item_id" with an id.
UpdateInputs(ids) ==
    { <<>>,
      [name |-> None, year |-> None],
      [name |-> Some(NameAb)],
      [name |-> Some(NameAb), description |-> None, year |-> None],
      [description |-> Some(ExplE1), year |-> Some(2000)] }
    \cup {[id |-> Some(i)] : i \in ids}
    \cup {[item_id |-> Some(i)] : i \in ids}

\* Items created, added to (which creates items, creators, links and
\* relationships), merged and updated; an id given in update_data is one of an
\* item stored or 0, an id no item was created with.
NextUpdate ==
    \/ create_item(ItemC)
    \/ \E i \in DOMAIN items :
            add_influences_to_existing(i, 2, "conflict_service")
    \/ \E s \in DOMAIN items, t \in DOMAIN items : merge_items(s, t)
    \/ \E i \in IdUniverse, d \in UpdateInputs((DOMAIN items) \cup {0}) :
            update_item(i, d)

SpecUpdate == Init /\ [][NextUpdate]_vars

\* Creators created directly, under two names equal up to case and with two
\* types, and through saves and additions of payloads that name creators;
\* creators linked directly to items, items created without a creator.
NextCreator ==
    \/ \E name \in {CreatorCr, Creatorcr}, creator_type \in {"person", "organization"} :
            create_creator(name, creator_type)
    \/ \E i \in DOMAIN items, c \in DOMAIN creators :
            link_creator_to_item(i, c, "creator")
    \/ create_item(ItemC)
    \/ \E p \in DOMAIN Payloads : save_structured_influences(p)
    \/ \E i \in DOMAIN items, p \in DOMAIN Payloads :
            add_influences_to_existing(i, p, "conflict_service")

SpecCreator == Init /\ [][NextCreator]_vars

\* Two requests to POST /influences/save running together on a store where
\* items are created and deleted.
NextRace ==
    \/ create_item(ItemC)
    \/ \E i \in DOMAIN items : delete_item_completely(i)
    \/ \E request \in Requests, p \in DOMAIN RacePayloads : save_route_check(request, p)
    \/ \E request \in Requests : save_route_save(request)

SpecRace == Init /\ [][NextRace]_vars

(***************************************************************************)
(* Properties.                                                             *)
(***************************************************************************)
\* The endpoint x of a relationship once item s has been merged into item t.
Moved(x, s, t) == IF x = s THEN t ELSE x

\* The relationships of bag R that touch item a.
Touching(R, a) == BagOn(R, {e \in DOMAIN R : e.from = a \/ e.to = a})

\* The relationships of bag R from item a to item b.
Between(R, a, b) == BagOn(R, {e \in DOMAIN R : e.from = a /\ e.to = b})

\* The CREATED_BY links of item a in the set L.
LinksOf(L, a) == {l \in L : l.item = a}

\* C1: for distinct existing items A and B, after merge_items(A, B) the item A
\* is not found, no relationship touches A, and every relationship that
\* touched A is found exactly once on B (an endpoint that was A is now B, the
\* other endpoint is unchanged); a delete_item_completely(B) that follows
\* leaves no relationship touching A or B.
C1_MergeMovesEveryEdgeOnce ==
    [][(/\ ret'.op = "merge_items"
        /\ merge_items(ret'.a, ret'.b)
        /\ ret'.a # ret'.b
        /\ ret'.a \in DOMAIN items
        /\ ret'.b \in DOMAIN items)
       => LET s == ret'.a
              t == ret'.b
              after == DetachDelete(Graph', t)
          IN  /\ get_item_by_id(Graph', s) = None
              /\ Touching(rels', s) = EmptyBag
              /\ \A e \in DOMAIN rels :
                    (e.from = s \/ e.to = s)
                    => EdgeCount(rels', Moved(e.from, s, t), Moved(e.to, s, t)) = 1
              /\ get_item_by_id(after, t) = None
              /\ Touching(after.rels, t) = EmptyBag
              /\ Touching(after.rels, s) = EmptyBag
      ]_vars

\* C1 witness: a merge of two distinct items has just moved one relationship
\* into the source and one out of it onto the target, and the source is gone.
C1_Witness ==
    /\ ret.op = "merge_items"
    /\ ret.status = "ok"
    /\ ret.a # ret.b
    /\ ret.n = 2
    /\ ret.a \notin DOMAIN items
    /\ ret.b \in DOMAIN items
    /\ \E e \in DOMAIN rels : e.to = ret.b /\ e.from # ret.b
    /\ \E e \in DOMAIN rels : e.from = ret.b /\ e.to # ret.b

\* At most one INFLUENCES relationship per ordered pair of items.
AtMostOneEdgePerPair ==
    \A a \in IdUniverse, b \in IdUniverse : EdgeCount(rels, a, b) <= 1

\* C2: every reachable state has at most one INFLUENCES relationship per
\* ordered pair of items, and create_influence_relationship on a pair that
\* already has a relationship leaves exactly one, with the attributes of the
\* call.
C2_AtMostOneEdgeUpsert ==
    /\ []AtMostOneEdgePerPair
    /\ [][ret'.op = "create_influence_relationship"
          => \A a \in AttrInputs :
                (/\ create_influence_relationship(ret'.a, ret'.b, a)
                 /\ HasEdge(rels, ret'.a, ret'.b))
                => /\ EdgeCount(rels', ret'.a, ret'.b) = 1
                   /\ \A e \in DOMAIN rels' :
                        (e.from = ret'.a /\ e.to = ret'.b) => e.attr = a
                   /\ BagCardinality(rels') = BagCardinality(rels)
       ]_vars

\* C2 witness: create_influence_relationship has just been called on a pair
\* that had a relationship, and the pair has one relationship.
C2_Witness ==
    /\ ret.op = "create_influence_relationship"
    /\ ret.n = 1
    /\ EdgeCount(rels, ret.a, ret.b) = 1
    /\ BagCardinality(rels) = 2

\* C3: merge_items with a source id or a target id that is not in the store
\* fails with a not-found error and changes nothing in the graph.
C3_MergeMissingIdFails ==
    [][(/\ ret'.op = "merge_items"
        /\ merge_items(ret'.a, ret'.b)
        /\ ret'.a \notin DOMAIN items \/ ret'.b \notin DOMAIN items)
       => /\ ret'.status = "NotFoundError"
          /\ UNCHANGED <<items, creators, rels, links, categories>>
      ]_vars

\* C3, the case the claim singles out: an existing source and its relationships
\* survive a merge_items whose target is missing.
C3_SourceSurvivesMissingTarget ==
    [][(/\ ret'.op = "merge_items"
        /\ merge_items(ret'.a, ret'.b)
        /\ ret'.a \in DOMAIN items
        /\ ret'.b \notin DOMAIN items)
       => /\ ret'.a \in DOMAIN items'
          /\ Touching(rels', ret'.a) = Touching(rels, ret'.a)
      ]_vars

\* C4: merge_items(A, A) on an existing item A fails with an invalid-argument
\* error and leaves A, its links and every relationship touching it as they
\* were.
C4_SelfMergeRejected ==
    [][(/\ ret'.op = "merge_items"
        /\ merge_items(ret'.a, ret'.b)
        /\ ret'.a = ret'.b
        /\ ret'.a \in DOMAIN items)
       => LET a == ret'.a
          IN  /\ ret'.status = "InvalidArgumentError"
              /\ get_item_by_id(Graph', a) = get_item_by_id(Graph, a)
              /\ Touching(rels', a) = Touching(rels, a)
              /\ LinksOf(links', a) = LinksOf(links, a)
      ]_vars

\* C5: in merge_items(source, target) on distinct existing items, for every
\* other item X with a relationship X->source (resp. source->X): when the
\* target had a relationship X->target (resp. target->X), that relationship is
\* the one found after the merge, with its attributes; when it had none, the
\* target has exactly one afterwards and it carries the attributes of the
\* source's relationship.
C5_TargetEdgeWins ==
    [][(/\ ret'.op = "merge_items"
        /\ merge_items(ret'.a, ret'.b)
        /\ ret'.a # ret'.b
        /\ ret'.a \in DOMAIN items
        /\ ret'.b \in DOMAIN items)
       => LET s == ret'.a
              t == ret'.b
          IN  \A e \in DOMAIN rels :
                /\ (e.to = s /\ e.from # s)
                   => IF HasEdge(rels, e.from, t)
                      THEN Between(rels', e.from, t) = Between(rels, e.from, t)
                      ELSE Between(rels', e.from, t)
                            = SetToBag({[from |-> e.from, to |-> t, attr |-> e.attr]})
                /\ (e.from = s /\ e.to # s)
                   => IF HasEdge(rels, t, e.to)
                      THEN Between(rels', t, e.to) = Between(rels, t, e.to)
                      ELSE Between(rels', t, e.to)
                            = SetToBag({[from |-> t, to |-> e.to, attr |-> e.attr]})
      ]_vars

\* C6: merge_items(source, target) on an existing target leaves the target's
\* scalar attributes and its CREATED_BY links as they were, leaves every other
\* item but the source, its links and the creators as they were, and leaves
\* every relationship that touches neither source nor target as it was.
C6_MergeFrame ==
    [][(/\ ret'.op = "merge_items"
        /\ merge_items(ret'.a, ret'.b)
        /\ ret'.b \in DOMAIN items)
       => LET s == ret'.a
              t == ret'.b
          IN  /\ get_item_by_id(Graph', t) = get_item_by_id(Graph, t)
              /\ LinksOf(links', t) = LinksOf(links, t)
              /\ \A i \in (DOMAIN items) \ {s, t} :
                    /\ get_item_by_id(Graph', i) = get_item_by_id(Graph, i)
                    /\ LinksOf(links', i) = LinksOf(links, i)
              /\ creators' = creators
              /\ BagOn(rels', {e \in DOMAIN rels' : {e.from, e.to} \cap {s, t} = {}})
                    = BagOn(rels, {e \in DOMAIN rels : {e.from, e.to} \cap {s, t} = {}})
      ]_vars

\* While a merge_items call is between two statements: the source is still in
\* the store if it was when the call started.
SourceKept == mg.had => mg.src \in DOMAIN items

\* While a merge_items call is between two statements: every relationship that
\* touched the source when the call started is in the store with its
\* attributes, on the source or with the source replaced by the target.
EdgesKept ==
    \A e \in DOMAIN mg.pre :
        (e.from = mg.src \/ e.to = mg.src)
        => \E k \in DOMAIN rels :
            /\ k.attr = e.attr
            /\ k.from \in {e.from, Moved(e.from, mg.src, mg.tgt)}
            /\ k.to \in {e.to, Moved(e.to, mg.src, mg.tgt)}

\* One step of a merge_items call: the incoming transfer comes first and leaves
\* no relationship into the source that the first statement would move; the
\* outgoing transfer follows it and leaves none out of the source that the
\* second statement would move; items are removed only by the step after both,
\* and that step removes the source alone.
MergeStepOrder ==
    /\ (mg.phase = "idle" /\ mg'.phase # "idle")
       => /\ mg'.phase = "incoming_done"
          /\ items' = items
          /\ IncomingRows(Graph', mg'.src, mg'.tgt) = EmptyBag
          /\ \A e \in DOMAIN rels :
                (e.from = mg'.src /\ e.to # mg'.src)
                => Between(rels', e.from, e.to) = Between(rels, e.from, e.to)
    /\ mg.phase = "incoming_done"
       => /\ mg'.phase \in {"outgoing_done", "idle"}
          /\ items' = items
          /\ mg'.phase = "outgoing_done"
             => /\ OutgoingRows(Graph', mg.src, mg.tgt) = EmptyBag
                /\ <<mg'.src, mg'.tgt, mg'.had, mg'.pre>>
                    = <<mg.src, mg.tgt, mg.had, mg.pre>>
          /\ mg'.phase = "idle" => rels' = rels
    /\ mg.phase = "outgoing_done"
       => /\ mg'.phase = "idle"
          /\ DOMAIN items' = (DOMAIN items) \ {mg.src} \/ UNCHANGED <<items, rels>>
          /\ ret'.status = "ok" => Touching(rels', mg.src) = EmptyBag

\* C7: merge_items runs the incoming transfer, then the outgoing transfer,
\* then the deletion of the source; in every state between two statements,
\* where a crash may leave the graph, the source still exists and every
\* relationship that touched it is still there, on the source or on the target.
C7_MergeOrderRecoverable ==
    /\ [](mg.phase # "idle" => SourceKept /\ EdgesKept)
    /\ [][MergeStepOrder]_vars

\* C7 witness: a merge of two distinct items is between its second and third
\* statement, both relationships of the source are on the target, and the
\* source is still in the store.
C7_Witness ==
    /\ mg.phase = "outgoing_done"
    /\ mg.src # mg.tgt
    /\ mg.src \in DOMAIN items
    /\ mg.tgt \in DOMAIN items
    /\ BagCardinality(Touching(mg.pre, mg.src)) = 2
    /\ \E e \in DOMAIN mg.pre : e.to = mg.src /\ e.from # mg.src
    /\ \E e \in DOMAIN mg.pre : e.from = mg.src /\ e.to # mg.src
    /\ Touching(rels, mg.src) = EmptyBag
    /\ BagCardinality(Touching(rels, mg.tgt)) = 2

\* The items with an INFLUENCES relationship into item_id in graph G.
InfluencesOf(G, item_id) == {e.from : e \in {x \in DOMAIN G.rels : x.to = item_id}}

\* C8: after add_influences_to_existing(item, payload) has returned, a second
\* call with the same payload adds nothing: the items and the INFLUENCES
\* relationships are those the first call left, and new_influences_added is 0;
\* and no item the first call created has the name, ignoring case, of another
\* item that influences the same item.
C8_AddInfluencesIdempotent ==
    [][(ret'.op = "add_influences_to_existing" /\ ret'.status = "ok")
       => \A v \in {"conflict_service", "graph_service"} :
            add_influences_to_existing(ret'.a, ret'.b, v)
            => LET again == AddInfluencesToExisting(Graph', ret'.a,
                                                    Payloads[ret'.b], v)
               IN  /\ again.status = "ok"
                   /\ again.added = 0
                   /\ again.G.items = items'
                   /\ again.G.rels = rels'
                   /\ InfluencesOf(again.G, ret'.a) = InfluencesOf(Graph', ret'.a)
                   /\ \A x \in (DOMAIN items') \ (DOMAIN items) :
                        \A y \in InfluencesOf(Graph', ret'.a) \ {x} :
                            toLower(items'[x].name) # toLower(items'[y].name)
      ]_vars

\* C8 witness: add_influences_to_existing has just returned for the payload
\* that lists one name twice up to case; it added one influence, and the item
\* has one influence of that name.
C8_Witness ==
    /\ ret.op = "add_influences_to_existing"
    /\ ret.status = "ok"
    /\ ret.b = 1
    /\ ret.n = 1
    /\ Cardinality({x \in InfluencesOf(Graph, ret.a) :
                        toLower(items[x].name) = toLower(NameAb)}) = 1

\* C9: after ItemService.find_similar_items, every stored item whose
\* normalized name equals the normalized query name is in the list with
\* similarity_score 100, before every entry with a lower score.
C9_ExactMatchFirst ==
    (ret.op = "find_similar_items" /\ found.service = "ItemService")
    => \A i \in DOMAIN items :
        _normalize_text(items[i].name) = _normalize_text(found.name)
        => \E k \in DOMAIN found.results :
            /\ found.results[k].id = i
            /\ found.results[k].similarity_score = 100
            /\ \A j \in DOMAIN found.results :
                found.results[j].similarity_score < 100 => k < j

\* Item i is related to the query the way C10 lists: its name equals the query
\* name, is contained in it, contains it or shares a significant word with it
\* (names compared lowercased, and normalized), or one of its creators matches
\* the creator name supplied.
RelatedToQuery(i) ==
    LET n == toLower(items[i].name)
        q == toLower(found.name)
        nn == _normalize_text(items[i].name)
        nq == _normalize_text(found.name)
    IN  \/ n = q \/ CONTAINS(n, q) \/ CONTAINS(q, n)
        \/ nn = nq \/ CONTAINS(nn, nq) \/ CONTAINS(nq, nn)
        \/ Range(SignificantWords(n)) \cap Range(SignificantWords(nq)) # {}
        \/ Range(SignificantWords(nn)) \cap Range(SignificantWords(nq)) # {}
        \/ /\ Truthy(found.creator_name)
           /\ \E c \in CreatorNamesOf(Graph, i) :
                CONTAINS(toLower(c), toLower(The(found.creator_name)))

\* C10: after either find_similar_items, every item in the list is related to
\* the query; so the list is empty when no stored item is.
C10_OnlyRelatedReturned ==
    ret.op = "find_similar_items"
    => \A k \in DOMAIN found.results : RelatedToQuery(found.results[k].id)

\* C11: the list ItemService.find_similar_items returns has at most 5
\* entries, its similarity_score values do not increase from first to last,
\* and no item that passed the query's WHERE clause and was left out has a
\* higher score than an item in the list.
C11_TopFiveByScore ==
    (ret.op = "find_similar_items" /\ found.service = "ItemService")
    => LET res == found.results
           normalized_search_name == _normalize_text(found.name)
           qualifying == FuzzyRows(Graph, normalized_search_name,
                                   OrEmpty(found.creator_name))
           returned == {res[k].id : k \in DOMAIN res}
           scoreOf(r) == SimilarityScore(items[r.id].name, normalized_search_name,
                                         r.matches, r.total_search_words)
       IN  /\ Len(res) <= ResultLimit
           /\ \A k \in 1..(Len(res) - 1) :
                res[k].similarity_score >= res[k + 1].similarity_score
           /\ \A r \in qualifying :
                r.id \notin returned
                => \A k \in DOMAIN res : scoreOf(r) <= res[k].similarity_score

\* C12: for every entry ItemService.find_similar_items returns whose item's
\* normalized name differs from the normalized candidate name, the score is 90
\* exactly when the candidate's normalized name is a substring of the item's
\* and has at least 4 characters, and 85 exactly when the item's normalized
\* name is a substring of the candidate's and has at least 4 characters.
C12_SubstringScores ==
    (ret.op = "find_similar_items" /\ found.service = "ItemService")
    => \A k \in DOMAIN found.results :
        LET existing == _normalize_text(items[found.results[k].id].name)
            candidate == _normalize_text(found.name)
            score == found.results[k].similarity_score
        IN  existing # candidate
            => /\ score = 90 <=> (CONTAINS(existing, candidate) /\ Len(candidate) >= 4)
               /\ score = 85 <=> (CONTAINS(candidate, existing) /\ Len(existing) >= 4)

\* C13: the influence_conflicts map find_comprehensive_conflicts returns has
\* no entry for a candidate whose trimmed name is empty, "none" or "null" in
\* any case, whatever the store holds; every entry is keyed by its candidate's
\* position in the payload and lists at least one similar item.
C13_NoConflictForSentinel ==
    ret.op = "find_comprehensive_conflicts"
    => LET influences == Payloads[ret.b].influences
       IN  \A i \in DOMAIN found.influence_conflicts :
            /\ i \in 0..(Len(influences) - 1)
            /\ ~IsSentinelName(strip(influences[i + 1].name))
            /\ found.influence_conflicts[i].influence_index = i
            /\ found.influence_conflicts[i].influence = influences[i + 1]
            /\ found.influence_conflicts[i].similar_items # <<>>

\* C13 witness: the report for the payload whose first candidate is named
\* "None", on a store where the matcher finds an item for that name; the
\* report has an entry for the second candidate only.
C13_Witness ==
    /\ ret.op = "find_comprehensive_conflicts"
    /\ ret.b = 2
    /\ \E r \in ItemService_find_similar_items(Graph, NameNone, None) : r # <<>>
    /\ DOMAIN found.influence_conflicts = {1}

\* The payload without its candidates of sentinel name.
WithoutSentinels(new_data) ==
    [new_data EXCEPT !.influences =
        SelectSeq(new_data.influences,
                  LAMBDA influence : ~IsSentinelName(strip(influence.name)))]

\* C14: a call of add_influences_to_existing that succeeds creates nothing
\* for a candidate whose trimmed name is empty, "none" or "null" in any case:
\* no item of such a name, and items, relationships, creator links and
\* category uses exactly as for the payload without those candidates; every
\* other candidate is processed (afterwards it is an influence of the item).
C14_AddSkipsSentinel ==
    [][ (ret'.op = "add_influences_to_existing" /\ ret'.status = "ok")
        => \A v \in {"conflict_service", "graph_service"} :
            add_influences_to_existing(ret'.a, ret'.b, v)
            => LET new_data == Payloads[ret'.b]
                   created == (DOMAIN items') \ (DOMAIN items)
                   clean == AddInfluencesToExisting(Graph, ret'.a,
                                                    WithoutSentinels(new_data), v)
               IN  /\ \A x \in created : ~IsSentinelName(strip(items'[x].name))
                   /\ Cardinality(created) = ret'.n
                   /\ BagCardinality(rels') = BagCardinality(rels) + ret'.n
                   /\ \A l \in links' \ links : l.item \in created \cup {ret'.a}
                   /\ \A c \in DOMAIN categories' :
                        categories'[c] =
                            (IF c \in DOMAIN categories THEN categories[c] ELSE 0)
                            + Cardinality({x \in created :
                                \E r \in BagToSet(rels') :
                                    r.from = x /\ r.to = ret'.a /\ r.attr.category = c})
                   /\ Graph' = clean.G
                   /\ \A k \in DOMAIN new_data.influences :
                        ~IsSentinelName(strip(new_data.influences[k].name))
                        => toLower(strip(new_data.influences[k].name))
                                \in ExistingInfluenceNames(Graph', ret'.a)
      ]_vars

\* C14 witness: add_influences_to_existing has returned for the payload
\* <"None", "c"> having added one influence, named "c".
C14_Witness ==
    /\ ret.op = "add_influences_to_existing"
    /\ ret.status = "ok"
    /\ ret.b = 2
    /\ ret.n = 1
    /\ \E x \in InfluencesOf(Graph, ret.a) : items[x].name = NameC

\* C15: when resolutions are applied with the main item created
\* (/save-with-resolutions), no item is created under a name that is empty,
\* "none" or "null" once trimmed and lowercased, and so no INFLUENCES
\* relationship starts from such an item.
C15_ApplySkipsSentinel ==
    [][ (ret'.op = "apply_resolutions" /\ ret'.b.main.resolution = "create_new")
        => /\ \A x \in (DOMAIN items') \ (DOMAIN items) :
                ~IsSentinelName(strip(items'[x].name))
           /\ \A e \in BagToSet(rels') :
                (e.to = ret'.a /\ e.from \in DOMAIN items')
                => ~IsSentinelName(strip(items'[e.from].name))
      ]_vars

\* The relationship attributes a carry the candidate's confidence,
\* influence_type, explanation, category, scope, source and clusters.
Carries(a, influence) ==
    /\ a.confidence = influence.confidence
    /\ a.influence_type = influence.influence_type
    /\ a.explanation = influence.explanation
    /\ a.category = influence.category
    /\ a.scope = influence.scope
    /\ a.source = influence.source
    /\ a.clusters = influence.clusters

\* C16: after resolutions are applied with success to a main item that
\* exists afterwards: for every candidate merged into an item that existed,
\* exactly one INFLUENCES relationship goes from that item to the main item
\* and it carries the candidate's attributes; for every candidate resolved
\* create_new whose name is not a sentinel, exactly one new item of its name
\* is created and a relationship goes from it to the main item; no item is
\* created for a merged candidate (the items created are at most one per
\* candidate not merged, and the main item when it is new).
C16_ResolutionsApplied ==
    [][ (ret'.op = "apply_resolutions" /\ ret'.status = "ok"
         /\ ret'.a \in DOMAIN items')
        => LET influences == Payloads[ret'.b.payload].influences
               res == ret'.b.resolutions
               main == ret'.a
               created == (DOMAIN items') \ (DOMAIN items)
               merged == {k \in DOMAIN influences : IsMergeResolution(res, k - 1)}
               fresh == {k \in DOMAIN influences :
                            /\ (k - 1) \in DOMAIN res
                            /\ k \notin merged
                            /\ ~IsSentinelName(strip(influences[k].name))}
           IN  /\ \A k \in merged :
                    LET t == The(res[k - 1].selectedItemId)
                    IN  t \in DOMAIN items
                        => /\ EdgeCount(rels', t, main) = 1
                           /\ \A e \in BagToSet(rels') :
                                (e.from = t /\ e.to = main)
                                => Carries(e.attr, influences[k])
               /\ \A k \in fresh :
                    /\ Cardinality({x \in created :
                            items'[x].name = influences[k].name}) = 1
                    /\ \E x \in created :
                        /\ items'[x].name = influences[k].name
                        /\ EdgeCount(rels', x, main) = 1
               /\ Cardinality(created)
                    <= Cardinality((DOMAIN influences) \ merged)
                       + (IF ret'.b.main.resolution = "merge" THEN 0 ELSE 1)
      ]_vars

\* C17: resolutions that name a target that is not in the store, for the main
\* item or for a merged candidate, are not applied with success.
C17_MissingTargetFails ==
    [][ ret'.op = "apply_resolutions"
        => LET influences == Payloads[ret'.b.payload].influences
               res == ret'.b.resolutions
               missing ==
                   \/ /\ ret'.b.main.resolution = "merge"
                      /\ The(ret'.b.main.selectedItemId) \notin DOMAIN items
                   \/ \E k \in DOMAIN influences :
                        /\ IsMergeResolution(res, k - 1)
                        /\ The(res[k - 1].selectedItemId) \notin DOMAIN items
           IN  missing => ret'.status # "ok"
      ]_vars

\* C18: after resolutions are applied, or add_influences_to_existing has
\* returned, every INFLUENCES relationship the call wrote has its category
\* registered: the Category node of that name exists, and each category's
\* usage_count grew by the number of relationships written with it.
C18_CategoryRegistered ==
    [][ (ret'.op \in {"apply_resolutions", "add_influences_to_existing"})
        => LET written == {e \in BagToSet(rels') : e \notin BagToSet(rels)}
               before(c) == IF c \in DOMAIN categories THEN categories[c] ELSE 0
           IN  /\ \A e \in written : e.attr.category \in DOMAIN categories'
               /\ \A c \in DOMAIN categories' :
                    categories'[c] = before(c)
                        + Cardinality({e \in written : e.attr.category = c})
      ]_vars

C20_ScopeFilter ==
    (ret.op = "get_influences" /\ ret.status = "ok")
    => LET incoming(S) == BagOn(rels, {e \in DOMAIN rels :
                                e.to = ret.a /\ (S = {} \/ e.attr.scope \in S)})
       IN  /\ found.response.influences = incoming(ret.b)
           /\ found.response.scopes = {e.attr.scope : e \in DOMAIN incoming({})}

\* C21: when the write of one candidate fails in add_influences_to_existing,
\* that candidate alone is skipped: the call still answers the main item's id
\* and every other candidate that is valid (no sentinel name) has an item of
\* its name influencing the main item afterwards.
C21_FailingCandidateSkipped ==
    [][ (/\ ret'.op = "add_influences_to_existing_failing"
         /\ ret'.a \in DOMAIN items)
        => /\ ret'.status = "ok"
           /\ \A j \in DOMAIN Payloads[ret'.b.payload].influences :
                LET influence_name == strip(Payloads[ret'.b.payload].influences[j].name)
                IN  (j # ret'.b.failing /\ ~IsSentinelName(influence_name))
                    => toLower(influence_name)
                           \in ExistingInfluenceNames(Graph', ret'.a) ]_vars

\* C22: when resolutions are applied and the response states a count of
\* influences created, the count is the number of influences the call wrote
\* (the items created for candidates, each with its relationship to the main
\* item), also when candidates were skipped for a sentinel name or for a name
\* already among the main item's influences.
C22_CountIsWritten ==
    [][ (/\ ret'.op = "apply_resolutions"
         /\ ret'.status = "ok"
         /\ DOMAIN ret'.b.resolutions # {})
        => ret'.n = (nextId' - nextId)
                    - (IF ret'.b.main.resolution = "merge" THEN 0 ELSE 1) ]_vars

\* C23: an operation on existing items (update_item, merge_items,
\* add_influences_to_existing with the create_influence_relationship calls it
\* makes) changes no item's id: every item it does not delete (merge_items
\* deletes its source) is stored under the same id afterwards, with the same
\* name unless update_item set one.
C23_IdStable ==
    [][ ret'.op \in {"update_item", "merge_items", "add_influences_to_existing"}
        => \A i \in DOMAIN items :
              (ret'.op = "merge_items" /\ i = ret'.a)
              \/ (/\ i \in DOMAIN items'
                  /\ (ret'.op # "update_item" => items'[i].name = items[i].name)) ]_vars

\* C24: with create_creator calls made one after another (directly, or by
\* save_structured_influences and add_influences_to_existing) there is at most
\* one creator per exact name, and a create_creator call for a name that a
\* creator has returns that creator's id and leaves the creators, their types
\* included, as they were.
C24_CreatorPerName ==
    /\ [](\A c1 \in DOMAIN creators, c2 \in DOMAIN creators :
            creators[c1].name = creators[c2].name => c1 = c2)
    /\ [][ (ret'.op = "create_creator" /\ CreatorsNamed(Graph, ret'.b) # {})
           => /\ ret'.a \in CreatorsNamed(Graph, ret'.b)
              /\ creators' = creators ]_vars

\* A create_creator call answered with an existing creator whose type is not
\* the one asked for, in a store where a save linked a creator to an item.
C24_Witness ==
    /\ ret.op = "create_creator"
    /\ ret.a \in DOMAIN creators
    /\ creators[ret.a].name = ret.b
    /\ creators[ret.a].type # ret.n
    /\ links # {}
    /\ Cardinality(DOMAIN creators) = 2

\* C25: add_influences_to_existing gives the item a primary_creator link, to
\* the creator of the name the payload gives as main_item_creator, exactly when
\* the item had no CREATED_BY link before the call and the payload gives one;
\* otherwise the item's creator links are the ones it had.
C25_BackfillOnlyWhenNone ==
    [][ (ret'.op = "add_influences_to_existing" /\ ret'.status = "ok")
        => LET new_data == Payloads[ret'.b]
               before == LinksOf(links, ret'.a)
               after == LinksOf(links', ret'.a)
           IN  IF before = {} /\ Truthy(new_data.main_item_creator)
               THEN \E c \in DOMAIN creators' :
                        /\ creators'[c].name = The(new_data.main_item_creator)
                        /\ after = {[item |-> ret'.a, creator |-> c,
                                     role |-> "primary_creator"]}
               ELSE after = before ]_vars

\* An item created without a creator was given the payload's creator by
\* add_influences_to_existing.
C25_Witness ==
    /\ ret.op = "add_influences_to_existing"
    /\ ret.status = "ok"
    /\ Truthy(Payloads[ret.b].main_item_creator)
    /\ items[ret.a].name = ItemC.name
    /\ items[ret.a].confidence_score = ItemC.confidence_score
    /\ \E c \in DOMAIN creators :
            LinksOf(links, ret.a) = {[item |-> ret.a, creator |-> c,
                                      role |-> "primary_creator"]}

\* C26: update_item(id, data) sets exactly the fields of the item that have a
\* value other than None in data and leaves its other fields, the other items,
\* the relationships and the creator links as they were, returning the item;
\* with empty or all-None data it returns the item and changes nothing; for an
\* id no item has it returns None and changes nothing.
C26_UpdateFrame ==
    [][ ret'.op = "update_item"
        => LET item_id == ret'.a
               update_data == ret'.b
           IN  IF item_id \notin DOMAIN items
               THEN ret'.n = None /\ Graph' = Graph
               ELSE IF SetClauses(update_data) = {}
               THEN ret'.n = Some(ItemOf(Graph, item_id)) /\ Graph' = Graph
               ELSE /\ ret'.status = "ok"
                    /\ DOMAIN items' = DOMAIN items
                    /\ \A i \in (DOMAIN items) \ {item_id} : items'[i] = items[i]
                    /\ DOMAIN items'[item_id] = DOMAIN items[item_id]
                    /\ \A field \in DOMAIN items[item_id] :
                          items'[item_id][field] =
                              IF field \in SetClauses(update_data)
                              THEN SetValue(field, update_data[field])
                              ELSE items[item_id][field]
                    /\ ret'.n = Some(ItemOf(Graph', item_id))
                    /\ rels' = rels /\ links' = links /\ creators' = creators ]_vars

\* C27: the save of a request whose check found no similar item never looks
\* at the store again: it answers success with the id of an item it creates
\* under the proposed name, also when a request running beside it has stored
\* an item of that name since the check.  Two requests for one new name can so
\* both pass the check and both create their item (C27_Witness).
C27_SaveAfterCheckCreates ==
    [][ (ret'.op = "save_route" /\ ret'.status = "ok")
        => /\ calls[ret'.a].similar_items = <<>>
           /\ calls'[ret'.a].pc = "success"
           /\ ret'.n \in (DOMAIN items') \ (DOMAIN items)
           /\ items'[ret'.n].name = RacePayloads[ret'.b].main_item ]_vars

\* Both requests found no similar item and answered success, and the store
\* holds the two items they created, of one name.
C27_Witness ==
    /\ \A request \in Requests :
          /\ calls[request].pc = "success"
          /\ calls[request].similar_items = <<>>
          /\ calls[request].item_id \in DOMAIN items
    /\ calls[1].item_id # calls[2].item_id
    /\ items[calls[1].item_id].name = items[calls[2].item_id].name
    /\ items[calls[1].item_id].name = NameM

\* C28: every relationship add_influences_to_existing writes for a candidate
\* (from the item it creates for it, to the existing item) carries the
\* attributes save_structured_influences writes for that candidate: its
\* confidence, influence_type, explanation, category, scope, source, year and
\* clusters.
C28_AddWritesSameEdge ==
    [][ (ret'.op = "add_influences_to_existing" /\ ret'.status = "ok")
        => \A e \in DOMAIN rels' :
              (e.from \notin DOMAIN items /\ e.to = ret'.a)
              => \E j \in DOMAIN Payloads[ret'.b].influences :
                    LET influence == Payloads[ret'.b].influences[j]
                    IN  /\ items'[e.from].name = strip(influence.name)
                        /\ e.attr = EdgeAttr(influence.confidence,
                                             influence.influence_type,
                                             influence.explanation, influence.category,
                                             influence.scope, influence.source,
                                             influence.year, influence.clusters) ]_vars

\* C29: get_influences(id) without a scope filter returns each relationship
\* into the item once, and get_what_item_influences(id) each relationship out
\* of it once, whatever number of creators the item at the other end has; the
\* lengths of the lists are the incoming and outgoing counts of
\* get_expansion_counts(id).
C29_ListsMatchCounts ==
    [][ /\ (ret'.op = "get_influences" /\ ret'.status = "ok" /\ ret'.b = {})
            => /\ found'.response.influences
                    = BagOn(rels, {e \in DOMAIN rels : e.to = ret'.a})
               /\ ret'.n = GetExpansionCounts(Graph, ret'.a).incoming_influences
        /\ ret'.op = "get_what_item_influences"
            => /\ found'.response.influences
                    = BagOn(rels, {e \in DOMAIN rels : e.from = ret'.a})
               /\ ret'.n = GetExpansionCounts(Graph, ret'.a).outgoing_influences
      ]_vars

\* C30: merge_items(source, target) on distinct existing items creates no
\* relationship from the target to itself: when neither item has a
\* relationship to itself before the merge and the two are joined by a
\* relationship (source->target or target->source), the target has no
\* relationship to itself afterwards.
C30_NoSelfLoopFromMerge ==
    [][ (/\ ret'.op = "merge_items"
         /\ ret'.a # ret'.b
         /\ ret'.a \in DOMAIN items
         /\ ret'.b \in DOMAIN items
         /\ ~HasEdge(rels, ret'.a, ret'.a)
         /\ ~HasEdge(rels, ret'.b, ret'.b)
         /\ (HasEdge(rels, ret'.a, ret'.b) \/ HasEdge(rels, ret'.b, ret'.a)))
        => ~HasEdge(rels', ret'.b, ret'.b) ]_vars
====
